---- MODULE Spec2Model ----
(***************************************************************************)
(* Resolution selection of the ComfyUI-J1mB091 nodes.                      *)
(*                                                                         *)
(* ResolutionSelector (resolution_nodes.py) and WanResolutionSelector      *)
(* (wan_resolution_selector.py) are pure functions of their arguments and  *)
(* of static preset tables.  One invocation is modelled as a state         *)
(* machine: the initial state holds the node and the arguments the host    *)
(* passes, the node's action applies select_resolution and stores the      *)
(* outcome (a returned (width, height) pair or the error raised).          *)
(*                                                                         *)
(* Python raises ValueError at every failure site; the model names each    *)
(* raise site by the error kind it stands for.                             *)
(***************************************************************************)
EXTENDS Integers, Sequences, FiniteSets, TLC

VARIABLES
    node,           \* the class whose select_resolution is invoked
    args,           \* the arguments of the invocation
    outcome,        \* Pending, or the returned pair / raised error
    extract_calls,  \* calls of the image-dimension helper made by the invocation
    class_attrs,    \* the preset tables, class attributes shared by all calls
    history,        \* the completed invocations of this process, in order
    validation,     \* Unchecked, or what VALIDATE_INPUTS returned for args
    output_folder   \* the files of the host's output directory

vars == <<node, args, outcome, extract_calls, class_attrs, history, validation,
          output_folder>>

(***************************************************************************)
(* Bounds of the explored inputs.                                          *)
(***************************************************************************)
\* invocations made one after the other in one process
MaxCalls == 3
\* image sides 1..MaxImageSide are explored exhaustively (21 reaches 21x20,
\* 16x9, 14x9 and 4x3)
MaxImageSide == 21
\* manual sizes 8*k for k in -2..MaxManualStep (unaligned, zero, negative)
MaxManualStep == 5

(***************************************************************************)
(* Class constants.                                                        *)
(***************************************************************************)
RS_DIMENSION_ALIGNMENT == 16
RS_MIN_DIMENSION == 16
RS_MAX_DIMENSION == 8192
Wan_DIMENSION_ALIGNMENT == 32
Wan_MIN_DIMENSION == 32
Wan_MAX_DIMENSION == 8192

\* WAN base presets by quality and landscape ratio key, as (width, height)
WAN_PRESETS ==
    ("480p" :> (("1:1" :> <<512, 512>>) @@ ("4:3" :> <<640, 480>>) @@ ("16:9" :> <<832, 480>>))) @@
    ("720p" :> (("1:1" :> <<768, 768>>) @@ ("4:3" :> <<960, 720>>) @@ ("16:9" :> <<1280, 720>>)))

\* WanResolutionSelector.PRESETS
Wan_PRESETS ==
    ("480p" :> (("1:1" :> <<512, 512>>) @@ ("4:3" :> <<640, 480>>) @@ ("16:9" :> <<832, 480>>))) @@
    ("720p" :> (("1:1" :> <<768, 768>>) @@ ("4:3" :> <<960, 720>>) @@ ("16:9" :> <<1280, 720>>)))

FLUX_KONTEXT_PRESETS ==
    ("672×1568  (9:21)" :> <<672, 1568>>) @@
    ("688×1504  (9:19.5)" :> <<688, 1504>>) @@
    ("720×1456  (9:18)" :> <<720, 1456>>) @@
    ("752×1392  (9:17)" :> <<752, 1392>>) @@
    ("800×1328  (5:8)" :> <<800, 1328>>) @@
    ("832×1248  (2:3)" :> <<832, 1248>>) @@
    ("880×1184  (3:4)" :> <<880, 1184>>) @@
    ("944×1104  (4:5)" :> <<944, 1104>>) @@
    ("1024×1024  (1:1)" :> <<1024, 1024>>) @@
    ("1104×944  (5:4)" :> <<1104, 944>>) @@
    ("1184×880  (4:3)" :> <<1184, 880>>) @@
    ("1248×832  (3:2)" :> <<1248, 832>>) @@
    ("1328×800  (8:5)" :> <<1328, 800>>) @@
    ("1392×752  (17:9)" :> <<1392, 752>>) @@
    ("1456×720  (18:9)" :> <<1456, 720>>) @@
    ("1504×688  (19.5:9)" :> <<1504, 688>>) @@
    ("1568×672  (21:9)" :> <<1568, 672>>)

FLUX_PRESETS ==
    ("576×2048  (9:32)" :> <<576, 2048>>) @@
    ("640×1472  (9:21)" :> <<640, 1472>>) @@
    ("704×1472  (9:19)" :> <<704, 1472>>) @@
    ("768×1344  (9:16)" :> <<768, 1344>>) @@
    ("896×1152  (7:9)" :> <<896, 1152>>) @@
    ("832×1280  (5:8)" :> <<832, 1280>>) @@
    ("832×1152  (5:7)" :> <<832, 1152>>) @@
    ("896×1152  (4:5)" :> <<896, 1152>>) @@
    ("768×1280  (3:5)" :> <<768, 1280>>) @@
    ("896×1152  (3:4)" :> <<896, 1152>>) @@
    ("832×1280  (2:3)" :> <<832, 1280>>) @@
    ("1024×1024  (1:1)" :> <<1024, 1024>>) @@
    ("1280×832  (3:2)" :> <<1280, 832>>) @@
    ("1152×896  (4:3)" :> <<1152, 896>>) @@
    ("1280×768  (5:3)" :> <<1280, 768>>) @@
    ("1152×896  (5:4)" :> <<1152, 896>>) @@
    ("1152×832  (7:5)" :> <<1152, 832>>) @@
    ("1280×832  (8:5)" :> <<1280, 832>>) @@
    ("1152×896  (9:7)" :> <<1152, 896>>) @@
    ("1344×768  (16:9)" :> <<1344, 768>>) @@
    ("1472×704  (19:9)" :> <<1472, 704>>) @@
    ("1472×640  (21:9)" :> <<1472, 640>>) @@
    ("2048×576  (32:9)" :> <<2048, 576>>)

SDXL_PRESETS ==
    ("640×1536  (5:12)" :> <<640, 1536>>) @@
    ("768×1344  (4:7)" :> <<768, 1344>>) @@
    ("832×1216  (2:3)" :> <<832, 1216>>) @@
    ("896×1152  (7:9)" :> <<896, 1152>>) @@
    ("1024×1024  (1:1)" :> <<1024, 1024>>) @@
    ("1152×896  (9:7)" :> <<1152, 896>>) @@
    ("1216×832  (3:2)" :> <<1216, 832>>) @@
    ("1344×768  (7:4)" :> <<1344, 768>>) @@
    ("1536×640  (12:5)" :> <<1536, 640>>)

(***************************************************************************)
(* Values.                                                                 *)
(***************************************************************************)
\* an image-like argument: None, a tensor/ndarray with a shape, a PIL image
\* with a size (width, height), or an object with neither
NoImage == [kind |-> "None", shape |-> <<>>, size |-> <<>>]
Tensor(shape) == [kind |-> "tensor", shape |-> shape, size |-> <<>>]
PILImage(w, h) == [kind |-> "PIL", shape |-> <<>>, size |-> <<w, h>>]
OpaqueObject == [kind |-> "object", shape |-> <<>>, size |-> <<>>]

\* the outcome of a call: `return (w, h)` or `raise ValueError(...)`;
\* extracts counts the calls of the image-dimension helper, attrs are the
\* class attributes as the call leaves them (neither statement assigns to
\* one, so they are the attributes the call found)
Pending == [status |-> "pending", width |-> 0, height |-> 0, error |-> ""]
Return(w, h) == [status |-> "ok", width |-> w, height |-> h, error |-> "",
                 extracts |-> 0, attrs |-> class_attrs]
Raise(kind) == [status |-> "error", width |-> 0, height |-> 0, error |-> kind,
                extracts |-> 0, attrs |-> class_attrs]
AfterExtract(r) == [r EXCEPT !.extracts = r.extracts + 1]
OutcomeOf(r) == [status |-> r.status, width |-> r.width, height |-> r.height, error |-> r.error]

Abs(x) == IF x < 0 THEN 0 - x ELSE x
Max(a, b) == IF a >= b THEN a ELSE b
Min(a, b) == IF a <= b THEN a ELSE b

\* faulty variant: the key is looked up as it is
LandscapeKey_unmapped(ratio_key) == ratio_key

\* {"3:4": "4:3", "9:16": "16:9"}.get(ratio_key, ratio_key)
LandscapeKey(ratio_key) ==
    IF ratio_key = "3:4" THEN "4:3"
    ELSE IF ratio_key = "9:16" THEN "16:9"
    ELSE ratio_key

(***************************************************************************)
(* Float comparisons of _resolve_ratio_key, in exact integer arithmetic.   *)
(*                                                                         *)
(* aspect = longer / shorter is an IEEE double.  For sides below 2^24 two  *)
(* different quotients of integers differ by far more than a rounding      *)
(* error, so a comparison of aspect with a rational constant can only      *)
(* depart from the exact one when the exact values are equal:              *)
(*  - abs(aspect - 1.0) <= 0.05: at longer/shorter = 21/20 the double      *)
(*    1.05 - 1.0 is 0.050000000000000044 > 0.05, so the test is false      *)
(*    there and the band is 20*longer < 21*shorter;                        *)
(*  - diff(4:3) < diff(16:9): at longer/shorter = 14/9 the doubles are     *)
(*    0.22222222222222232 and 0.2222222222222221, so the test is false     *)
(*    there, as in exact arithmetic.                                       *)
(***************************************************************************)
\* faulty variant: the comparison done in exact arithmetic, where 21/20 is
\* inside the band
WithinSquareTolerance_exact(longer, shorter) == 20 * longer <= 21 * shorter

WithinSquareTolerance(longer, shorter) == 20 * longer < 21 * shorter

\* 9 * shorter * abs(aspect - value) for the candidates 16/9 and 4/3
CandidateDiff(key, longer, shorter) ==
    IF key = "16:9" THEN Abs(9 * longer - 16 * shorter)
    ELSE 3 * Abs(3 * longer - 4 * shorter)

\* faulty variant: the loop replaces the kept key on an equal diff too
ClosestCandidate_last_on_tie(longer, shorter) ==
    IF CandidateDiff("4:3", longer, shorter) <= CandidateDiff("16:9", longer, shorter)
    THEN "4:3" ELSE "16:9"

\* faulty variant: the loop never replaces its first candidate
ClosestCandidate_no_update(longer, shorter) == "16:9"

\* the loop over candidates = {"16:9": 16/9, "4:3": 4/3}, in insertion order,
\* keeping a key only when its diff is strictly smaller
ClosestCandidate(longer, shorter) ==
    LET afterFirst == "16:9"        \* diff < inf always holds
    IN IF CandidateDiff("4:3", longer, shorter) < CandidateDiff(afterFirst, longer, shorter)
       THEN "4:3" ELSE afterFirst

(***************************************************************************)
(* ResolutionSelector (resolution_nodes.py).                               *)
(***************************************************************************)
\* body of the try block of ImageProcessingBase.extract_image_dimensions for
\* an image that is neither None nor a PIL image
RS_shape_dimensions(image) ==
    IF image.kind # "tensor" THEN [raised |-> TRUE, height |-> 0, width |-> 0]
    ELSE LET shape == image.shape
             n == Len(shape)
             hw == IF n = 4 THEN <<shape[2], shape[3]>> ELSE <<shape[1], shape[2]>>
         IN IF n \notin {2, 3, 4} THEN [raised |-> TRUE, height |-> 0, width |-> 0]
            ELSE IF hw[1] <= 0 \/ hw[2] <= 0 THEN [raised |-> TRUE, height |-> 0, width |-> 0]
            ELSE [raised |-> FALSE, height |-> hw[1], width |-> hw[2]]

\* ImageProcessingBase.extract_image_dimensions: (height, width); every
\* exception is caught and replaced by (512, 512)
RS_extract_image_dimensions(image) ==
    IF image.kind = "None" THEN <<512, 512>>
    ELSE IF image.kind = "PIL" THEN <<image.size[2], image.size[1]>>
    ELSE LET r == RS_shape_dimensions(image)
         IN IF r.raised THEN <<512, 512>> ELSE <<r.height, r.width>>

\* faulty variant: the aspect is width / height, not normalised to >= 1
RS_resolve_ratio_key_unnormalised(override_key, width, height) ==
    IF override_key \in {"16:9", "4:3", "1:1"}
    THEN <<override_key, IF override_key = "1:1" THEN "None" ELSE "landscape">>
    ELSE IF override_key \in {"3:4", "9:16"} THEN <<override_key, "portrait">>
    ELSE IF height = 0 THEN <<"1:1", "None">>
    ELSE IF 20 * Abs(width - height) < height THEN <<"1:1", "None">>
    ELSE <<ClosestCandidate(width, height), "None">>

\* faulty variant: the near-square test is missing
RS_resolve_ratio_key_no_square(override_key, width, height) ==
    IF override_key \in {"16:9", "4:3", "1:1"}
    THEN <<override_key, IF override_key = "1:1" THEN "None" ELSE "landscape">>
    ELSE IF override_key \in {"3:4", "9:16"} THEN <<override_key, "portrait">>
    ELSE LET longer == Max(width, height)
             shorter == Min(width, height)
         IN IF shorter = 0 THEN <<"1:1", "None">>
            ELSE <<ClosestCandidate(longer, shorter), "None">>

\* faulty variant: a portrait override does not force the orientation
RS_resolve_ratio_key_unforced_portrait(override_key, width, height) ==
    IF override_key \in {"16:9", "4:3", "1:1"}
    THEN <<override_key, IF override_key = "1:1" THEN "None" ELSE "landscape">>
    ELSE IF override_key \in {"3:4", "9:16"} THEN <<override_key, "None">>
    ELSE LET longer == Max(width, height)
             shorter == Min(width, height)
         IN IF shorter = 0 THEN <<"1:1", "None">>
            ELSE IF WithinSquareTolerance(longer, shorter) THEN <<"1:1", "None">>
            ELSE <<ClosestCandidate(longer, shorter), "None">>

\* ResolutionSelector._resolve_ratio_key: <<ratio_key, orientation>>
RS_resolve_ratio_key(override_key, width, height) ==
    IF override_key \in {"16:9", "4:3", "1:1"}
    THEN <<override_key, IF override_key = "1:1" THEN "None" ELSE "landscape">>
    ELSE IF override_key \in {"3:4", "9:16"} THEN <<override_key, "portrait">>
    ELSE LET longer == Max(width, height)
             shorter == Min(width, height)
         IN IF shorter = 0 THEN <<"1:1", "None">>
            ELSE IF WithinSquareTolerance(longer, shorter) THEN <<"1:1", "None">>
            ELSE <<ClosestCandidate(longer, shorter), "None">>

\* ResolutionSelector._select_base_resolution: the table entry, or the
\* ValueError raised on KeyError
RS_select_base_resolution(quality, ratio_key) ==
    IF quality \in DOMAIN class_attrs.WAN_PRESETS /\ ratio_key \in DOMAIN class_attrs.WAN_PRESETS[quality]
    THEN Return(class_attrs.WAN_PRESETS[quality][ratio_key][1], class_attrs.WAN_PRESETS[quality][ratio_key][2])
    ELSE Raise("UnsupportedCombination")

\* faulty variant: the lower bound is not checked, so zero and negative
\* multiples of the alignment are returned
RS_handle_manual_mode_no_min(manual_width, manual_height) ==
    IF manual_width % RS_DIMENSION_ALIGNMENT # 0 \/ manual_height % RS_DIMENSION_ALIGNMENT # 0
    THEN Raise("InvalidManualDimensions")
    ELSE IF manual_width > RS_MAX_DIMENSION \/ manual_height > RS_MAX_DIMENSION
    THEN Raise("InvalidManualDimensions")
    ELSE Return(manual_width, manual_height)

\* faulty variant: the upper bound is exclusive
RS_handle_manual_mode_exclusive_max(manual_width, manual_height) ==
    IF manual_width % RS_DIMENSION_ALIGNMENT # 0 \/ manual_height % RS_DIMENSION_ALIGNMENT # 0
    THEN Raise("InvalidManualDimensions")
    ELSE IF ~(RS_MIN_DIMENSION <= manual_width /\ manual_width < RS_MAX_DIMENSION)
            \/ ~(RS_MIN_DIMENSION <= manual_height /\ manual_height < RS_MAX_DIMENSION)
    THEN Raise("InvalidManualDimensions")
    ELSE Return(manual_width, manual_height)

RS_handle_manual_mode(manual_width, manual_height) ==
    IF manual_width % RS_DIMENSION_ALIGNMENT # 0 \/ manual_height % RS_DIMENSION_ALIGNMENT # 0
    THEN Raise("InvalidManualDimensions")
    ELSE IF ~(RS_MIN_DIMENSION <= manual_width /\ manual_width <= RS_MAX_DIMENSION)
            \/ ~(RS_MIN_DIMENSION <= manual_height /\ manual_height <= RS_MAX_DIMENSION)
    THEN Raise("InvalidManualDimensions")
    ELSE Return(manual_width, manual_height)

\* faulty variant: every named-preset model reads the FLUX table
RS_handle_flux_mode_flux_only(aspect_ratio, model) ==
    IF aspect_ratio \notin DOMAIN class_attrs.FLUX_PRESETS THEN Raise("InvalidPreset")
    ELSE Return(class_attrs.FLUX_PRESETS[aspect_ratio][1], class_attrs.FLUX_PRESETS[aspect_ratio][2])

RS_handle_flux_mode(aspect_ratio, model) ==
    LET presets == IF model = "SDXL" THEN class_attrs.SDXL_PRESETS
                   ELSE IF model = "FLUX Kontext" THEN class_attrs.FLUX_KONTEXT_PRESETS
                   ELSE class_attrs.FLUX_PRESETS
    IN IF aspect_ratio \notin DOMAIN presets THEN Raise("InvalidPreset")
       ELSE Return(presets[aspect_ratio][1], presets[aspect_ratio][2])

\* faulty variant: the orientation is never inferred from the image
RS_wan_with_image_try_forced_only(image, quality, aspect_ratio_override) ==
    LET dims == RS_extract_image_dimensions(image)
        rk == RS_resolve_ratio_key(aspect_ratio_override, dims[2], dims[1])
        base == RS_select_base_resolution(quality, LandscapeKey(rk[1]))
    IN IF base.status = "error" THEN base
       ELSE IF rk[2] = "portrait" /\ rk[1] # "1:1"
       THEN Return(base.height, base.width)
       ELSE Return(base.width, base.height)

\* the try block of _handle_wan_with_image (lines 574-598)
RS_wan_with_image_try(image, quality, aspect_ratio_override) ==
    LET dims == RS_extract_image_dimensions(image)
        image_height == dims[1]
        image_width == dims[2]
        rk == RS_resolve_ratio_key(aspect_ratio_override, image_width, image_height)
        ratio_key == rk[1]
        forced_orientation == rk[2]
        base == RS_select_base_resolution(quality, LandscapeKey(ratio_key))
        orientation ==
            IF forced_orientation = "None" /\ ratio_key # "1:1"
            THEN (IF image_width >= image_height THEN "landscape" ELSE "portrait")
            ELSE forced_orientation
    IN IF base.status = "error" THEN base
       ELSE IF orientation = "portrait" /\ ratio_key # "1:1"
       THEN Return(base.height, base.width)
       ELSE Return(base.width, base.height)

\* faulty variant: the except branch stores the default it returns in the
\* table, under the quality the lookup did not find
RS_handle_wan_with_image_memo(image, quality, aspect_ratio_override) ==
    LET r == RS_wan_with_image_try(image, quality, aspect_ratio_override)
        default == IF quality = "480p" THEN Return(512, 512)
                   ELSE IF quality = "720p" THEN Return(768, 768)
                   ELSE Return(512, 512)
    IN AfterExtract(
         IF r.status = "error"
         THEN [default EXCEPT !.attrs.WAN_PRESETS =
                 (quality :> [k \in {"1:1", "4:3", "16:9"} |-> <<default.width, default.height>>]) @@ @]
         ELSE r)

\* _handle_wan_with_image: `except Exception` replaces every error of the
\* try block by defaults.get(quality, (512, 512))
RS_handle_wan_with_image(image, quality, aspect_ratio_override) ==
    LET r == RS_wan_with_image_try(image, quality, aspect_ratio_override)
    IN AfterExtract(
         IF r.status = "error"
         THEN (IF quality = "480p" THEN Return(512, 512)
               ELSE IF quality = "720p" THEN Return(768, 768)
               ELSE Return(512, 512))
         ELSE r)

\* faulty variant: the portrait swap is missing
RS_handle_wan_without_image_no_swap(quality, aspect_ratio_override) ==
    IF aspect_ratio_override = "off" THEN Raise("MissingOverride")
    ELSE RS_select_base_resolution(
             quality, LandscapeKey(RS_resolve_ratio_key(aspect_ratio_override, 1, 1)[1]))

RS_handle_wan_without_image(quality, aspect_ratio_override) ==
    IF aspect_ratio_override = "off" THEN Raise("MissingOverride")
    ELSE LET rk == RS_resolve_ratio_key(aspect_ratio_override, 1, 1)
             ratio_key == rk[1]
             forced_orientation == rk[2]
             base == RS_select_base_resolution(quality, LandscapeKey(ratio_key))
         IN IF base.status = "error" THEN base
            ELSE IF forced_orientation = "portrait" /\ ratio_key # "1:1"
            THEN Return(base.height, base.width)
            ELSE Return(base.width, base.height)

\* faulty variant: the image is measured once more before the dispatch
RS_handle_wan_mode_probe(image, quality, aspect_ratio_override) ==
    AfterExtract(
        IF image.kind # "None"
        THEN RS_handle_wan_with_image(image, quality, aspect_ratio_override)
        ELSE RS_handle_wan_without_image(quality, aspect_ratio_override))

RS_handle_wan_mode(image, quality, aspect_ratio_override) ==
    IF image.kind # "None"
    THEN RS_handle_wan_with_image(image, quality, aspect_ratio_override)
    ELSE RS_handle_wan_without_image(quality, aspect_ratio_override)

\* faulty variant: the preset label is validated before the mode is looked at
RS_select_resolution_label_first(a) ==
    IF a.model \in {"FLUX", "FLUX Kontext", "SDXL"}
       /\ RS_handle_flux_mode(a.aspect_ratio, a.model).status = "error"
    THEN Raise("InvalidPreset")
    ELSE IF a.mode = "manual" THEN RS_handle_manual_mode(a.manual_width, a.manual_height)
    ELSE IF a.mode = "auto"
    THEN (IF a.model \in {"FLUX", "FLUX Kontext", "SDXL"}
          THEN RS_handle_flux_mode(a.aspect_ratio, a.model)
          ELSE RS_handle_wan_mode(a.image, a.quality, a.aspect_ratio_override))
    ELSE Raise("UnsupportedMode")

\* faulty variant: auto mode demands an override or an image for every model
RS_select_resolution_override_first(a) ==
    IF a.mode = "manual" THEN RS_handle_manual_mode(a.manual_width, a.manual_height)
    ELSE IF a.mode = "auto"
    THEN (IF a.image.kind = "None" /\ a.aspect_ratio_override = "off"
          THEN Raise("MissingOverride")
          ELSE IF a.model \in {"FLUX", "FLUX Kontext", "SDXL"}
          THEN RS_handle_flux_mode(a.aspect_ratio, a.model)
          ELSE RS_handle_wan_mode(a.image, a.quality, a.aspect_ratio_override))
    ELSE Raise("UnsupportedMode")

RS_select_resolution(a) ==
    IF a.mode = "manual" THEN RS_handle_manual_mode(a.manual_width, a.manual_height)
    ELSE IF a.mode = "auto"
    THEN (IF a.model \in {"FLUX", "FLUX Kontext", "SDXL"}
          THEN RS_handle_flux_mode(a.aspect_ratio, a.model)
          ELSE RS_handle_wan_mode(a.image, a.quality, a.aspect_ratio_override))
    ELSE Raise("UnsupportedMode")

\* what VALIDATE_INPUTS returns: True, or the text of a message
Unchecked == [status |-> "unchecked", message |-> <<>>]
ValidationTrue == [status |-> "True", message |-> <<>>]
ValidationMessage(parts) == [status |-> "message", message |-> parts]

\* faulty variant: the FLUX Kontext table is not offered
RS_get_model_resolutions_no_kontext(model_type) ==
    IF model_type = "FLUX" THEN DOMAIN class_attrs.FLUX_PRESETS
    ELSE IF model_type = "SDXL" THEN DOMAIN class_attrs.SDXL_PRESETS
    ELSE {}

\* ResolutionSelector._get_model_resolutions: the labels of the model's
\* table, empty for every other model
RS_get_model_resolutions(model_type) ==
    IF model_type = "FLUX" THEN DOMAIN class_attrs.FLUX_PRESETS
    ELSE IF model_type = "FLUX Kontext" THEN DOMAIN class_attrs.FLUX_KONTEXT_PRESETS
    ELSE IF model_type = "SDXL" THEN DOMAIN class_attrs.SDXL_PRESETS
    ELSE {}

\* ResolutionSelector.VALIDATE_INPUTS
RS_VALIDATE_INPUTS(mode, model, quality, aspect_ratio_override, aspect_ratio, manual_width, manual_height) ==
    IF mode = "manual" \/ model = "WAN" THEN ValidationTrue
    ELSE LET valid_resolutions == RS_get_model_resolutions(model)
         IN IF valid_resolutions = {} THEN ValidationTrue
            ELSE IF aspect_ratio \notin valid_resolutions
            THEN ValidationMessage(<<"Selected resolution '", aspect_ratio,
                                     "' is not valid for ", model, " model">>)
            ELSE ValidationTrue

(***************************************************************************)
(* WanResolutionSelector (wan_resolution_selector.py).                     *)
(***************************************************************************)
\* WanResolutionSelector._extract_image_dimensions: (height, width) or the
\* ValueError raised; a PIL image has no shape attribute
Wan_extract_image_dimensions(image) ==
    IF image.kind # "tensor"
    THEN [raised |-> TRUE, error |-> "UnsupportedImage", height |-> 0, width |-> 0]
    ELSE LET shape == image.shape
             n == Len(shape)
             hw == IF n = 4 THEN <<shape[2], shape[3]>> ELSE <<shape[1], shape[2]>>
         IN IF n \notin {2, 3, 4}
            THEN [raised |-> TRUE, error |-> "UnsupportedImage", height |-> 0, width |-> 0]
            ELSE IF hw[1] <= 0 \/ hw[2] <= 0
            THEN [raised |-> TRUE, error |-> "InvalidImageDimensions", height |-> 0, width |-> 0]
            ELSE [raised |-> FALSE, error |-> "", height |-> hw[1], width |-> hw[2]]

\* faulty variant: the near-square band includes the aspect 21/20
Wan_resolve_ratio_key_closed_band(override_key, width, height) ==
    IF override_key \in {"16:9", "4:3", "1:1"}
    THEN <<override_key, IF override_key = "1:1" THEN "None" ELSE "landscape">>
    ELSE IF override_key \in {"3:4", "9:16"} THEN <<override_key, "portrait">>
    ELSE LET longer == Max(width, height)
             shorter == Min(width, height)
         IN IF shorter = 0 THEN <<"1:1", "None">>
            ELSE IF 20 * longer <= 21 * shorter THEN <<"1:1", "None">>
            ELSE <<ClosestCandidate(longer, shorter), "None">>

\* WanResolutionSelector._resolve_ratio_key: <<ratio_key, orientation>>
Wan_resolve_ratio_key(override_key, width, height) ==
    IF override_key \in {"16:9", "4:3", "1:1"}
    THEN <<override_key, IF override_key = "1:1" THEN "None" ELSE "landscape">>
    ELSE IF override_key \in {"3:4", "9:16"} THEN <<override_key, "portrait">>
    ELSE LET longer == Max(width, height)
             shorter == Min(width, height)
         IN IF shorter = 0 THEN <<"1:1", "None">>
            ELSE IF WithinSquareTolerance(longer, shorter) THEN <<"1:1", "None">>
            ELSE <<ClosestCandidate(longer, shorter), "None">>

Wan_select_base_resolution(quality, ratio_key) ==
    IF quality \in DOMAIN class_attrs.Wan_PRESETS /\ ratio_key \in DOMAIN class_attrs.Wan_PRESETS[quality]
    THEN Return(class_attrs.Wan_PRESETS[quality][ratio_key][1], class_attrs.Wan_PRESETS[quality][ratio_key][2])
    ELSE Raise("UnsupportedCombination")

\* faulty variant: the lower bound is not checked
Wan_manual_no_min(manual_width, manual_height) ==
    IF manual_width % Wan_DIMENSION_ALIGNMENT # 0 \/ manual_height % Wan_DIMENSION_ALIGNMENT # 0
    THEN Raise("InvalidManualDimensions")
    ELSE IF manual_width > Wan_MAX_DIMENSION \/ manual_height > Wan_MAX_DIMENSION
    THEN Raise("InvalidManualDimensions")
    ELSE Return(manual_width, manual_height)

\* the manual branch of select_resolution (lines 66-75)
Wan_manual(manual_width, manual_height) ==
    IF manual_width % Wan_DIMENSION_ALIGNMENT # 0 \/ manual_height % Wan_DIMENSION_ALIGNMENT # 0
    THEN Raise("InvalidManualDimensions")
    ELSE IF ~(Wan_MIN_DIMENSION <= manual_width /\ manual_width <= Wan_MAX_DIMENSION)
            \/ ~(Wan_MIN_DIMENSION <= manual_height /\ manual_height <= Wan_MAX_DIMENSION)
    THEN Raise("InvalidManualDimensions")
    ELSE Return(manual_width, manual_height)

\* faulty variant: the portrait swap is missing
Wan_auto_with_image_no_swap(image, quality, aspect_ratio_override) ==
    LET dims == Wan_extract_image_dimensions(image)
        rk == Wan_resolve_ratio_key(aspect_ratio_override, dims.width, dims.height)
    IN AfterExtract(
         IF dims.raised THEN Raise(dims.error)
         ELSE Wan_select_base_resolution(quality, LandscapeKey(rk[1])))

\* the auto branch with an image (lines 80-96)
Wan_auto_with_image(image, quality, aspect_ratio_override) ==
    LET dims == Wan_extract_image_dimensions(image)
        image_height == dims.height
        image_width == dims.width
        rk == Wan_resolve_ratio_key(aspect_ratio_override, image_width, image_height)
        ratio_key == rk[1]
        forced_orientation == rk[2]
        base == Wan_select_base_resolution(quality, LandscapeKey(ratio_key))
        orientation ==
            IF forced_orientation # "None" THEN forced_orientation
            ELSE IF image_width >= image_height THEN "landscape" ELSE "portrait"
    IN AfterExtract(
         IF dims.raised THEN Raise(dims.error)
         ELSE IF base.status = "error" THEN base
         ELSE IF orientation = "portrait" /\ ratio_key # "1:1"
         THEN Return(base.height, base.width)
         ELSE Return(base.width, base.height))

\* faulty variant: the override is not required
Wan_auto_without_image_unchecked(quality, aspect_ratio_override) ==
    LET rk == Wan_resolve_ratio_key(aspect_ratio_override, 1, 1)
        base == Wan_select_base_resolution(quality, LandscapeKey(rk[1]))
    IN IF base.status = "error" THEN base
       ELSE IF rk[2] = "portrait" /\ rk[1] # "1:1"
       THEN Return(base.height, base.width)
       ELSE Return(base.width, base.height)

\* the auto branch without an image (lines 98-111)
Wan_auto_without_image(quality, aspect_ratio_override) ==
    IF aspect_ratio_override = "off" THEN Raise("MissingOverride")
    ELSE LET rk == Wan_resolve_ratio_key(aspect_ratio_override, 1, 1)
             ratio_key == rk[1]
             forced_orientation == rk[2]
             base == Wan_select_base_resolution(quality, LandscapeKey(ratio_key))
         IN IF base.status = "error" THEN base
            ELSE IF forced_orientation = "portrait" /\ ratio_key # "1:1"
            THEN Return(base.height, base.width)
            ELSE Return(base.width, base.height)

\* faulty variant: every mode other than manual is run as auto
Wan_select_resolution_default_auto(a) ==
    IF a.mode = "manual" THEN Wan_manual(a.manual_width, a.manual_height)
    ELSE IF a.image.kind # "None"
    THEN Wan_auto_with_image(a.image, a.quality, a.aspect_ratio_override)
    ELSE Wan_auto_without_image(a.quality, a.aspect_ratio_override)

Wan_select_resolution(a) ==
    IF a.mode = "manual" THEN Wan_manual(a.manual_width, a.manual_height)
    ELSE IF a.mode = "auto"
    THEN (IF a.image.kind # "None"
          THEN Wan_auto_with_image(a.image, a.quality, a.aspect_ratio_override)
          ELSE Wan_auto_without_image(a.quality, a.aspect_ratio_override))
    ELSE Raise("UnsupportedMode")

(***************************************************************************)
(* The explored arguments.                                                 *)
(***************************************************************************)
NamedModels == {"FLUX", "FLUX Kontext", "SDXL"}
Models == {"WAN"} \cup NamedModels \cup {"SD3"}
QualityTiers == {"480p", "720p"}
Qualities == QualityTiers \cup {"1080p"}
OverrideTokens == {"off", "1:1", "4:3", "16:9", "3:4", "9:16"}
Overrides == OverrideTokens \cup {"21:9"}
UnknownModes == {"image", "Auto"}

\* the table _handle_flux_mode reads for a model: every model other than
\* SDXL and FLUX Kontext reads the FLUX table
PresetsOf(model) ==
    IF model = "SDXL" THEN SDXL_PRESETS
    ELSE IF model = "FLUX Kontext" THEN FLUX_KONTEXT_PRESETS
    ELSE FLUX_PRESETS
AllLabels == DOMAIN FLUX_PRESETS \cup DOMAIN FLUX_KONTEXT_PRESETS \cup DOMAIN SDXL_PRESETS
Labels == AllLabels \cup {"1920×1080  (16:9)"}
FewLabels == {"1024×1024  (1:1)", "832×1216  (2:3)", "1920×1080  (16:9)"}

\* image sizes as <<width, height>>
SpecialPairs ==
    { <<1920, 1080>>, <<1080, 1920>>, <<1400, 900>>, <<900, 1400>>,
      <<105, 100>>, <<100, 105>>, <<104999, 100000>>, <<100000, 104999>>,
      <<1000, 980>>, <<512, 512>>, <<1024, 768>>, <<768, 1024>> }
ImagePairs == ((1..MaxImageSide) \X (1..MaxImageSide)) \cup SpecialPairs
BatchImages == { Tensor(<<1, p[2], p[1], 3>>) : p \in ImagePairs }
OddImages ==
    { Tensor(<<1080, 1920, 3>>), Tensor(<<1920, 1080>>), Tensor(<<7>>),
      Tensor(<<1, 1, 480, 640, 3>>), Tensor(<<1, 0, 64, 3>>), Tensor(<<1, 64, 0, 3>>),
      PILImage(1920, 1080), PILImage(480, 640), OpaqueObject }
Images == {NoImage} \cup BatchImages \cup OddImages
FewImages == { NoImage, Tensor(<<1, 1080, 1920, 3>>), Tensor(<<1, 1920, 1080, 3>>),
               Tensor(<<7>>), PILImage(480, 640), OpaqueObject }

ManualDims ==
    { 8 * k : k \in (0 - 2)..MaxManualStep }
    \cup { 100, 480, 832 }
    \cup { RS_MAX_DIMENSION + 8 * k : k \in (0 - 4)..4 }
FewManualPairs == { <<832, 480>>, <<100, 480>>, <<832, 8208>>, <<0, 0>>, <<32, 16>> }

\* ResolutionSelector.select_resolution(mode, model, quality,
\* aspect_ratio_override, aspect_ratio, manual_width, manual_height, image)
RSArgs(modes, models, qualities, overrides, labels, widths, heights, images) ==
    [ mode : modes, model : models, quality : qualities,
      aspect_ratio_override : overrides, aspect_ratio : labels,
      manual_width : widths, manual_height : heights, image : images ]

RSArgSet ==
    \* manual mode, every manual size
    RSArgs({"manual"}, {"WAN", "FLUX"}, {"480p"}, {"off"}, {"1024×1024  (1:1)"},
           ManualDims, ManualDims, {NoImage})
    \* manual and unknown modes, every other argument
    \cup { [ mode |-> m, model |-> mo, quality |-> q, aspect_ratio_override |-> o,
             aspect_ratio |-> l, manual_width |-> p[1], manual_height |-> p[2],
             image |-> i ] :
           m \in {"manual"} \cup UnknownModes, mo \in Models, q \in Qualities,
           o \in Overrides, l \in FewLabels, p \in FewManualPairs, i \in FewImages }
    \* auto mode, named-preset models, every label
    \cup RSArgs({"auto"}, NamedModels, Qualities, Overrides, Labels,
                {832}, {480}, FewImages)
    \* auto mode, ratio-driven path, every image
    \cup RSArgs({"auto"}, {"WAN", "SD3"}, Qualities, Overrides, {"1024×1024  (1:1)"},
                {832}, {480}, Images)

\* WanResolutionSelector.select_resolution(mode, quality,
\* aspect_ratio_override, manual_width, manual_height, image)
WanArgs(modes, qualities, overrides, widths, heights, images) ==
    [ mode : modes, quality : qualities, aspect_ratio_override : overrides,
      manual_width : widths, manual_height : heights, image : images ]

WanArgSet ==
    WanArgs({"manual"}, {"480p"}, {"off"}, ManualDims, ManualDims, {NoImage})
    \cup { [ mode |-> m, quality |-> q, aspect_ratio_override |-> o,
             manual_width |-> p[1], manual_height |-> p[2], image |-> i ] :
           m \in {"manual"} \cup UnknownModes, q \in Qualities,
           o \in Overrides, p \in FewManualPairs, i \in FewImages }
    \cup WanArgs({"auto"}, Qualities, Overrides, {832}, {480}, Images)

(***************************************************************************)
(* The state shared by the invocations of one process.                     *)
(***************************************************************************)
\* the class attributes as the class bodies define them
ClassAttrs ==
    [ WAN_PRESETS |-> WAN_PRESETS,
      FLUX_KONTEXT_PRESETS |-> FLUX_KONTEXT_PRESETS,
      FLUX_PRESETS |-> FLUX_PRESETS,
      SDXL_PRESETS |-> SDXL_PRESETS,
      Wan_PRESETS |-> Wan_PRESETS ]

\* the invocations explored in sequence
RSCallSet ==
    RSArgs({"auto"}, {"WAN"}, {"480p", "1080p"}, {"off", "1:1"}, {"1344×768  (16:9)"},
           {832}, {480}, {NoImage, Tensor(<<1, 1080, 1920, 3>>)})
    \cup RSArgs({"auto"}, {"FLUX"}, {"480p"}, {"off"}, {"1344×768  (16:9)"},
                {832}, {480}, {NoImage})
    \cup RSArgs({"manual", "image"}, {"WAN"}, {"480p"}, {"off"}, {"1344×768  (16:9)"},
                {832}, {480}, {NoImage})
WanCallSet ==
    WanArgs({"auto"}, {"1080p"}, {"1:1"}, {832}, {480},
            {NoImage, Tensor(<<1, 1080, 1920, 3>>)})
    \cup WanArgs({"auto"}, {"480p"}, {"off"}, {832}, {480}, {Tensor(<<1, 1080, 1920, 3>>)})
    \cup WanArgs({"manual"}, {"480p"}, {"off"}, {832}, {480}, {NoImage})

(***************************************************************************)
(* One invocation.                                                         *)
(***************************************************************************)
Init ==
    /\ node \in {"ResolutionSelector", "WanResolutionSelector"}
    /\ args \in (IF node = "ResolutionSelector" THEN RSArgSet ELSE WanArgSet)
    /\ outcome = Pending
    /\ extract_calls = 0
    /\ class_attrs = ClassAttrs
    /\ history = <<>>
    /\ validation = Unchecked
    /\ output_folder = {}

\* the host runs ResolutionSelector.select_resolution
RSSelectResolution ==
    /\ node = "ResolutionSelector"
    /\ outcome = Pending
    /\ LET r == RS_select_resolution(args)
       IN /\ outcome' = OutcomeOf(r)
          /\ extract_calls' = r.extracts
          /\ history' = Append(history, [node |-> node, args |-> args, outcome |-> OutcomeOf(r)])
          /\ class_attrs' = r.attrs
    /\ UNCHANGED <<node, args, validation, output_folder>>

\* the host runs WanResolutionSelector.select_resolution
WanSelectResolution ==
    /\ node = "WanResolutionSelector"
    /\ outcome = Pending
    /\ LET r == Wan_select_resolution(args)
       IN /\ outcome' = OutcomeOf(r)
          /\ extract_calls' = r.extracts
          /\ history' = Append(history, [node |-> node, args |-> args, outcome |-> OutcomeOf(r)])
          /\ class_attrs' = r.attrs
    /\ UNCHANGED <<node, args, validation, output_folder>>

\* the host validates the arguments of a ResolutionSelector node before it
\* executes the node
RSValidateInputs ==
    /\ node = "ResolutionSelector"
    /\ outcome = Pending
    /\ validation = Unchecked
    /\ validation' = RS_VALIDATE_INPUTS(args.mode, args.model, args.quality,
                                       args.aspect_ratio_override, args.aspect_ratio,
                                       args.manual_width, args.manual_height)
    /\ UNCHANGED <<node, args, outcome, extract_calls, class_attrs, history, output_folder>>

Next == RSValidateInputs \/ RSSelectResolution \/ WanSelectResolution

Spec == Init /\ [][Next]_vars

(***************************************************************************)
(* Invocations one after the other in one process.                         *)
(***************************************************************************)
InitCalls ==
    /\ node \in {"ResolutionSelector", "WanResolutionSelector"}
    /\ args \in (IF node = "ResolutionSelector" THEN RSCallSet ELSE WanCallSet)
    /\ outcome = Pending
    /\ extract_calls = 0
    /\ class_attrs = ClassAttrs
    /\ history = <<>>
    /\ validation = Unchecked
    /\ output_folder = {}

\* the host, having received an outcome, invokes a node again
HostNextInvocation ==
    /\ outcome # Pending
    /\ Len(history) < MaxCalls
    /\ node' \in {"ResolutionSelector", "WanResolutionSelector"}
    /\ args' \in (IF node' = "ResolutionSelector" THEN RSCallSet ELSE WanCallSet)
    /\ outcome' = Pending
    /\ extract_calls' = 0
    /\ UNCHANGED <<class_attrs, history, validation, output_folder>>

NextCalls == RSSelectResolution \/ WanSelectResolution \/ HostNextInvocation

SpecCalls == InitCalls /\ [][NextCalls]_vars

TypeOK ==
    /\ node \in {"ResolutionSelector", "WanResolutionSelector"}
    /\ outcome.status \in {"pending", "ok", "error"}
    /\ extract_calls \in {0, 1}
    /\ validation.status \in {"unchecked", "True", "message"}

(***************************************************************************)
(* Vocabulary of the properties.                                           *)
(***************************************************************************)
Called == outcome # Pending
IsRS == node = "ResolutionSelector"
Ok(w, h) == [status |-> "ok", width |-> w, height |-> h, error |-> ""]
Failed(kind) == [status |-> "error", width |-> 0, height |-> 0, error |-> kind]

\* alignment unit and smallest manual size of the invoked class
Unit == IF IsRS THEN 16 ELSE 32
ManualValid(x) == x % Unit = 0 /\ Unit <= x /\ x <= 8192

\* the call takes the ratio-driven path of auto mode
RatioDrivenAuto == args.mode = "auto" /\ (IsRS => args.model \notin {"FLUX", "FLUX Kontext", "SDXL"})

\* the image is a tensor [batch, height, width, channels], [height, width,
\* channels] or [height, width] with positive height and width
ImageHeight == IF Len(args.image.shape) = 4 THEN args.image.shape[2] ELSE args.image.shape[1]
ImageWidth == IF Len(args.image.shape) = 4 THEN args.image.shape[3] ELSE args.image.shape[2]
HasSizedImage ==
    /\ args.image.kind = "tensor"
    /\ Len(args.image.shape) \in {2, 3, 4}
    /\ ImageHeight > 0 /\ ImageWidth > 0
Longer == IF ImageWidth >= ImageHeight THEN ImageWidth ELSE ImageHeight
Shorter == IF ImageWidth >= ImageHeight THEN ImageHeight ELSE ImageWidth

\* the preset of quality tier q for ratio token t: the table base of t's
\* landscape equivalent, transposed exactly for the portrait tokens
TableBase(q, key) == IF IsRS THEN WAN_PRESETS[q][key] ELSE Wan_PRESETS[q][key]
PresetFor(q, t) ==
    CASE t = "1:1" -> Ok(TableBase(q, "1:1")[1], TableBase(q, "1:1")[2])
      [] t = "4:3" -> Ok(TableBase(q, "4:3")[1], TableBase(q, "4:3")[2])
      [] t = "16:9" -> Ok(TableBase(q, "16:9")[1], TableBase(q, "16:9")[2])
      [] t = "3:4" -> Ok(TableBase(q, "4:3")[2], TableBase(q, "4:3")[1])
      [] t = "9:16" -> Ok(TableBase(q, "16:9")[2], TableBase(q, "16:9")[1])
Transposed(r) == Ok(r.height, r.width)

(***************************************************************************)
(* Properties.                                                             *)
(***************************************************************************)
\* C1: manual round trip. In mode manual, when manual_width and manual_height
\* are both multiples of the class's alignment unit (16 for
\* ResolutionSelector, 32 for WanResolutionSelector) and both lie in
\* [MIN_DIMENSION, 8192], select_resolution returns exactly that pair.
ManualRoundTrip ==
    (Called /\ args.mode = "manual"
        /\ ManualValid(args.manual_width) /\ ManualValid(args.manual_height))
    => outcome = Ok(args.manual_width, args.manual_height)

\* both bounds of the range are returned unchanged by ResolutionSelector
ManualRoundTripWitness ==
    /\ Called /\ IsRS /\ args.mode = "manual"
    /\ args.manual_width = 8192 /\ args.manual_height = 16
    /\ outcome = Ok(8192, 16)

\* C2: in mode manual, select_resolution fails with InvalidManualDimensions
\* whenever manual_width or manual_height is not a multiple of the alignment
\* unit, is below MIN_DIMENSION or is above 8192 (0 and negative multiples
\* included).
ManualRejectsInvalid ==
    (Called /\ args.mode = "manual"
        /\ ~(ManualValid(args.manual_width) /\ ManualValid(args.manual_height)))
    => outcome = Failed("InvalidManualDimensions")

\* width 100 with alignment 16 is rejected
ManualRejectsInvalidWitness ==
    /\ Called /\ IsRS /\ args.mode = "manual"
    /\ args.manual_width = 100 /\ args.manual_height = 480
    /\ outcome = Failed("InvalidManualDimensions")

\* C3: in mode manual the outcome depends only on manual_width and
\* manual_height: replacing model, quality, aspect_ratio_override, preset
\* label and image by any other values (an invalid model, an unknown label,
\* an unreadable image) leaves the outcome unchanged.
ManualIgnoresOtherArguments ==
    (Called /\ args.mode = "manual") =>
        \A q \in Qualities, o \in {"off", "9:16", "21:9"}, i \in FewImages :
            IF IsRS
            THEN \A mo \in Models, l \in FewLabels :
                    OutcomeOf(RS_select_resolution(
                        [args EXCEPT !.model = mo, !.quality = q,
                                     !.aspect_ratio_override = o,
                                     !.aspect_ratio = l, !.image = i])) = outcome
            ELSE OutcomeOf(Wan_select_resolution(
                        [args EXCEPT !.quality = q, !.aspect_ratio_override = o,
                                     !.image = i])) = outcome

\* a manual call with an invalid model, an unknown label and an unreadable
\* image still returns its manual size
ManualIgnoresOtherArgumentsWitness ==
    /\ Called /\ IsRS /\ args.mode = "manual"
    /\ args.model = "SD3" /\ args.aspect_ratio = "1920×1080  (16:9)"
    /\ args.image = OpaqueObject
    /\ outcome = Ok(832, 480)

\* C4: in auto mode with model FLUX, FLUX Kontext or SDXL,
\* ResolutionSelector returns exactly the dimensions stored under the preset
\* label in that model's own table and fails with InvalidPreset when the
\* label is absent from that table, also when another model's table has it.
NamedPresetLookup ==
    (Called /\ IsRS /\ args.mode = "auto"
        /\ args.model \in {"FLUX", "FLUX Kontext", "SDXL"})
    => LET table == CASE args.model = "FLUX" -> FLUX_PRESETS
                      [] args.model = "FLUX Kontext" -> FLUX_KONTEXT_PRESETS
                      [] args.model = "SDXL" -> SDXL_PRESETS
       IN IF args.aspect_ratio \in DOMAIN table
          THEN outcome = Ok(table[args.aspect_ratio][1], table[args.aspect_ratio][2])
          ELSE outcome = Failed("InvalidPreset")

\* an SDXL-only label is found in the SDXL table
NamedPresetLookupWitness ==
    /\ Called /\ IsRS /\ args.mode = "auto" /\ args.model = "SDXL"
    /\ args.aspect_ratio = "832×1216  (2:3)"
    /\ outcome = Ok(832, 1216)

\* C5: in auto mode with a named-preset model the outcome is independent of
\* the image, of aspect_ratio_override and of quality.
NamedPresetIgnoresImageAndOverride ==
    (Called /\ IsRS /\ args.mode = "auto"
        /\ args.model \in {"FLUX", "FLUX Kontext", "SDXL"})
    => \A q \in Qualities, o \in Overrides, i \in FewImages :
          OutcomeOf(RS_select_resolution(
              [args EXCEPT !.quality = q, !.aspect_ratio_override = o, !.image = i]))
          = outcome

\* no image and override off still give the preset
NamedPresetIgnoresImageAndOverrideWitness ==
    /\ Called /\ IsRS /\ args.mode = "auto" /\ args.model = "FLUX"
    /\ args.image = NoImage /\ args.aspect_ratio_override = "off"
    /\ args.aspect_ratio = "1344×768  (16:9)"
    /\ outcome = Ok(1344, 768)

\* C6: override dominance. On the ratio-driven path of auto mode with an
\* image of positive dimensions, an override token t other than off yields
\* the quality tier's preset for t, whatever the image's width, height and
\* orientation.
OverrideDominance ==
    (Called /\ RatioDrivenAuto /\ HasSizedImage
        /\ args.quality \in {"480p", "720p"}
        /\ args.aspect_ratio_override \in {"1:1", "4:3", "16:9", "3:4", "9:16"})
    => outcome = PresetFor(args.quality, args.aspect_ratio_override)

\* a landscape image with the portrait override 9:16 gives the portrait preset
OverrideDominanceWitness ==
    /\ Called /\ IsRS /\ RatioDrivenAuto /\ HasSizedImage
    /\ ImageWidth = 1920 /\ ImageHeight = 1080
    /\ args.quality = "480p" /\ args.aspect_ratio_override = "9:16"
    /\ outcome = Ok(480, 832)

\* C7: missing-override failure. On the ratio-driven path of auto mode with
\* no image and override off, select_resolution fails with MissingOverride
\* for every quality.
MissingOverrideFails ==
    (Called /\ RatioDrivenAuto /\ args.image = NoImage
        /\ args.aspect_ratio_override = "off")
    => outcome = Failed("MissingOverride")

MissingOverrideFailsWitness ==
    /\ Called /\ ~IsRS /\ RatioDrivenAuto /\ args.image = NoImage
    /\ args.aspect_ratio_override = "off" /\ args.quality = "720p"
    /\ outcome = Failed("MissingOverride")

\* C8: on the ratio-driven path of auto mode with no image and an override
\* token t other than off, the result for quality tier q is the table base
\* of t's landscape equivalent, transposed exactly for the portrait tokens.
OverrideWithoutImage ==
    (Called /\ RatioDrivenAuto /\ args.image = NoImage
        /\ args.quality \in {"480p", "720p"}
        /\ args.aspect_ratio_override \in {"1:1", "4:3", "16:9", "3:4", "9:16"})
    => outcome = PresetFor(args.quality, args.aspect_ratio_override)

\* 720p with 9:16 gives (720, 1280)
OverrideWithoutImageWitness ==
    /\ Called /\ IsRS /\ RatioDrivenAuto /\ args.image = NoImage
    /\ args.quality = "720p" /\ args.aspect_ratio_override = "9:16"
    /\ outcome = Ok(720, 1280)

\* C9: a mode other than auto and manual makes select_resolution fail with
\* UnsupportedMode, whatever the other arguments are.
UnknownModeFails ==
    (Called /\ args.mode \notin {"auto", "manual"})
    => outcome = Failed("UnsupportedMode")

UnknownModeFailsWitness ==
    /\ Called /\ ~IsRS /\ args.mode = "image"
    /\ args.image # NoImage /\ args.aspect_ratio_override = "16:9"
    /\ outcome = Failed("UnsupportedMode")

\* C10: with override off and an image whose aspect max/min lies above the
\* 5% square band, the ratio-driven path selects the preset of the candidate
\* among 16/9 and 4/3 that is closer to the aspect: the 16:9 preset above the
\* midpoint 14/9, the 4:3 preset below it, in the table's or the transposed
\* orientation; a 1920x1080 image at 480p yields (832, 480).
ClosestCandidatePreset ==
    (Called /\ RatioDrivenAuto /\ HasSizedImage
        /\ args.quality \in {"480p", "720p"}
        /\ args.aspect_ratio_override = "off"
        /\ 20 * Longer > 21 * Shorter)
    => /\ 9 * Longer > 14 * Shorter =>
            outcome \in { PresetFor(args.quality, "16:9"), PresetFor(args.quality, "9:16") }
       /\ 9 * Longer < 14 * Shorter =>
            outcome \in { PresetFor(args.quality, "4:3"), PresetFor(args.quality, "3:4") }
       /\ (ImageWidth = 1920 /\ ImageHeight = 1080 /\ args.quality = "480p") =>
            outcome = Ok(832, 480)

ClosestCandidatePresetWitness ==
    /\ Called /\ RatioDrivenAuto /\ HasSizedImage
    /\ ImageWidth = 1920 /\ ImageHeight = 1080
    /\ args.quality = "480p" /\ args.aspect_ratio_override = "off"
    /\ outcome = Ok(832, 480)

\* the ratio key the invoked class gives the image with the override off
ClassifiedKey ==
    IF IsRS THEN RS_resolve_ratio_key("off", ImageWidth, ImageHeight)[1]
    ELSE Wan_resolve_ratio_key("off", ImageWidth, ImageHeight)[1]
SquarePreset(q) == IF q = "480p" THEN Ok(512, 512) ELSE Ok(768, 768)

\* C11: when no override forces the orientation and the classified ratio is
\* not 1:1, the result is the classified ratio's base pair for an image with
\* width >= height and the swapped pair otherwise, so the returned width is
\* >= the returned height exactly when image_width >= image_height; a
\* 1080x1920 image at 480p yields (480, 832).
OrientationFromImage ==
    (Called /\ RatioDrivenAuto /\ HasSizedImage
        /\ args.quality \in {"480p", "720p"}
        /\ args.aspect_ratio_override = "off"
        /\ ClassifiedKey # "1:1")
    => /\ outcome = IF ImageWidth >= ImageHeight
                    THEN PresetFor(args.quality, ClassifiedKey)
                    ELSE Transposed(PresetFor(args.quality, ClassifiedKey))
       /\ (outcome.width >= outcome.height) <=> (ImageWidth >= ImageHeight)

OrientationFromImageWitness ==
    /\ Called /\ IsRS /\ RatioDrivenAuto /\ HasSizedImage
    /\ ImageWidth = 1080 /\ ImageHeight = 1920
    /\ args.quality = "480p" /\ args.aspect_ratio_override = "off"
    /\ outcome = Ok(480, 832)

\* C12: square invariance. For an image with width = height > 0 and the
\* override off the ratio-driven path returns the square preset of the
\* quality tier, (512, 512) for 480p and (768, 768) for 720p; and a 1:1
\* result is never changed by the orientation swap: the override 1:1 gives
\* the square preset for landscape and portrait images alike.
SquareInvariance ==
    (Called /\ RatioDrivenAuto /\ HasSizedImage /\ args.quality \in {"480p", "720p"})
    => /\ (ImageWidth = ImageHeight /\ args.aspect_ratio_override = "off")
            => outcome = SquarePreset(args.quality)
       /\ args.aspect_ratio_override = "1:1" => outcome = SquarePreset(args.quality)

SquareInvarianceWitness ==
    /\ Called /\ IsRS /\ RatioDrivenAuto /\ HasSizedImage
    /\ ImageWidth = 512 /\ ImageHeight = 512
    /\ args.quality = "720p" /\ args.aspect_ratio_override = "off"
    /\ outcome = Ok(768, 768)

\* C13: orientation symmetry. For each quality tier and each landscape key
\* R in {4:3, 16:9} with base (bw, bh): an image with width > height that
\* classifies to R with the override off yields (bw, bh), and an image with
\* width < height with the override set to R's portrait equivalent (3:4 or
\* 9:16) yields (bh, bw).
OrientationSymmetry ==
    (Called /\ RatioDrivenAuto /\ HasSizedImage /\ args.quality \in {"480p", "720p"})
    => \A R \in {"4:3", "16:9"} :
         LET bw == TableBase(args.quality, R)[1]
             bh == TableBase(args.quality, R)[2]
             portrait == IF R = "4:3" THEN "3:4" ELSE "9:16"
         IN /\ (ImageWidth > ImageHeight /\ args.aspect_ratio_override = "off"
                   /\ ClassifiedKey = R)
                => outcome = Ok(bw, bh)
            /\ (ImageWidth < ImageHeight /\ args.aspect_ratio_override = portrait)
                => outcome = Ok(bh, bw)

OrientationSymmetryWitness ==
    /\ Called /\ ~IsRS /\ RatioDrivenAuto /\ HasSizedImage
    /\ ImageWidth = 1080 /\ ImageHeight = 1920
    /\ args.quality = "720p" /\ args.aspect_ratio_override = "9:16"
    /\ outcome = Ok(720, 1280)

\* C14: with the override off, every image whose aspect a = max/min
\* satisfies |a - 1.0| <= 0.05, the band being closed (20*max <= 21*min), is
\* classified 1:1 and yields the square preset; every image outside the band
\* is classified 4:3 or 16:9 and yields one of their presets.
SquareBandClosed ==
    (Called /\ RatioDrivenAuto /\ HasSizedImage
        /\ args.quality \in {"480p", "720p"}
        /\ args.aspect_ratio_override = "off")
    => IF 20 * Longer <= 21 * Shorter
       THEN outcome = SquarePreset(args.quality)
       ELSE outcome \in { PresetFor(args.quality, t) : t \in {"4:3", "16:9", "3:4", "9:16"} }

\* C15: tolerance boundary. With the override off an image whose aspect is
\* exactly 1.05 (105x100, 21x20) classifies as non-square and yields the 4:3
\* preset in the image's orientation, while an image of aspect 1.04999
\* (104999x100000) classifies as square.
ToleranceBoundary ==
    (Called /\ RatioDrivenAuto /\ HasSizedImage
        /\ args.quality \in {"480p", "720p"}
        /\ args.aspect_ratio_override = "off")
    => /\ 20 * Longer = 21 * Shorter =>
            outcome = IF ImageWidth > ImageHeight THEN PresetFor(args.quality, "4:3")
                      ELSE PresetFor(args.quality, "3:4")
       /\ (Longer = 104999 /\ Shorter = 100000) => outcome = SquarePreset(args.quality)

ToleranceBoundaryWitness ==
    /\ Called /\ IsRS /\ RatioDrivenAuto /\ HasSizedImage
    /\ ImageWidth = 105 /\ ImageHeight = 100
    /\ args.quality = "480p" /\ args.aspect_ratio_override = "off"
    /\ outcome = Ok(640, 480)

\* C16: tie-break. With the override off an image whose aspect is exactly
\* 14/9, equidistant from 16/9 and 4/3 (14x9, 1400x900), is classified 16:9
\* in both classes and for both orientations of the image.
TieBreakPrefersWidescreen ==
    (Called /\ RatioDrivenAuto /\ HasSizedImage
        /\ args.quality \in {"480p", "720p"}
        /\ args.aspect_ratio_override = "off"
        /\ 9 * Longer = 14 * Shorter)
    => outcome = IF ImageWidth > ImageHeight THEN PresetFor(args.quality, "16:9")
                 ELSE PresetFor(args.quality, "9:16")

TieBreakPrefersWidescreenWitness ==
    /\ Called /\ ~IsRS /\ RatioDrivenAuto /\ HasSizedImage
    /\ ImageWidth = 900 /\ ImageHeight = 1400
    /\ args.quality = "720p" /\ args.aspect_ratio_override = "off"
    /\ outcome = Ok(720, 1280)

\* C17: on the ratio-driven path of auto mode, when (quality, landscape
\* ratio key) has no entry in the preset table, as for a quality outside
\* {480p, 720p}, select_resolution fails with UnsupportedCombination, with an
\* image and without one; it never returns a substituted default.
MissingPresetFails ==
    (Called /\ RatioDrivenAuto /\ args.quality \notin {"480p", "720p"}
        /\ (args.image = NoImage => args.aspect_ratio_override # "off")
        /\ (args.image # NoImage => HasSizedImage))
    => outcome = Failed("UnsupportedCombination")

\* C18: on the ratio-driven path of auto mode with an image supplied,
\* select_resolution fails with UnsupportedImage when the image has no shape
\* or a shape whose length is not 2, 3 or 4, and with InvalidImageDimensions
\* when the extracted height or width is <= 0, whatever the override is.
UnreadableImageFails ==
    (Called /\ RatioDrivenAuto /\ args.image # NoImage)
    => /\ (args.image.kind = "object"
            \/ (args.image.kind = "tensor" /\ Len(args.image.shape) \notin {2, 3, 4}))
          => outcome = Failed("UnsupportedImage")
       /\ (args.image.kind = "tensor" /\ Len(args.image.shape) \in {2, 3, 4}
            /\ (ImageHeight <= 0 \/ ImageWidth <= 0))
          => outcome = Failed("InvalidImageDimensions")

\* C19 as stated: the image-dimension helper is called exactly once in every
\* invocation that carries an image, for every mode and model, and never in
\* an invocation without an image.
ExtractOncePerImageCall ==
    Called => extract_calls = IF args.image # NoImage THEN 1 ELSE 0

\* C19, amended: the image-dimension helper is called exactly once in every
\* invocation that carries an image and takes the ratio-driven path of auto
\* mode, and never in any other invocation (manual mode, a named-preset
\* model, an unknown mode, or no image).
ExtractOncePerRatioDrivenImageCall ==
    Called => extract_calls = IF args.image # NoImage /\ RatioDrivenAuto THEN 1 ELSE 0

\* an unreadable image is measured once as well
ExtractOncePerRatioDrivenImageCallWitness ==
    /\ Called /\ IsRS /\ RatioDrivenAuto
    /\ args.image = Tensor(<<7>>)
    /\ extract_calls = 1

\* C20: determinism. Two invocations with identical arguments have identical
\* outcomes, the same pair or the same error, in any order and after any
\* number of other invocations; an invocation made again after the others
\* would repeat its outcome; and no invocation changes the preset tables
\* that a later invocation reads.
CallsAreDeterministic ==
    /\ \A i, j \in DOMAIN history :
          (history[i].node = history[j].node /\ history[i].args = history[j].args)
          => history[i].outcome = history[j].outcome
    /\ \A i \in DOMAIN history :
          history[i].outcome =
              OutcomeOf(IF history[i].node = "ResolutionSelector"
                        THEN RS_select_resolution(history[i].args)
                        ELSE Wan_select_resolution(history[i].args))
    /\ class_attrs = ClassAttrs

\* an invocation that failed for a missing preset fails the same way after
\* an invocation with an image that took the same lookup
CallsAreDeterministicWitness ==
    /\ Len(history) = 3
    /\ history[1].node = "ResolutionSelector" /\ history[3] = history[1]
    /\ history[1].args.quality = "1080p" /\ history[1].args.image = NoImage
    /\ history[1].outcome = Failed("UnsupportedCombination")
    /\ history[2].node = "ResolutionSelector"
    /\ history[2].args.mode = "auto" /\ history[2].args.quality = "1080p"
    /\ history[2].args.image # NoImage

\* C21: every pair returned by a successful select_resolution call, in any
\* mode and for any model, has width > 0 and height > 0.
ReturnedPairIsPositive ==
    (Called /\ outcome.status = "ok") => (outcome.width > 0 /\ outcome.height > 0)

\* successful calls of every kind: manual mode at the smallest size, and the
\* fallback of the ratio-driven path for an unknown quality
ReturnedPairIsPositiveWitness ==
    /\ Called /\ IsRS /\ outcome.status = "ok"
    /\ \/ args.mode = "manual" /\ args.manual_width = 16 /\ outcome.width = 16
       \/ /\ args.mode = "auto" /\ args.model = "WAN" /\ args.quality = "1080p"
          /\ args.image.kind = "tensor" /\ outcome = Ok(512, 512)

\* the arguments of the other class for the same request
AsWanArgs(a) ==
    [ mode |-> a.mode, quality |-> a.quality,
      aspect_ratio_override |-> a.aspect_ratio_override,
      manual_width |-> a.manual_width, manual_height |-> a.manual_height,
      image |-> a.image ]
AsRSArgs(a, model, label) ==
    [ mode |-> a.mode, model |-> model, quality |-> a.quality,
      aspect_ratio_override |-> a.aspect_ratio_override, aspect_ratio |-> label,
      manual_width |-> a.manual_width, manual_height |-> a.manual_height,
      image |-> a.image ]

\* C25: for every auto-mode input with quality in {480p, 720p}, override in
\* {off, 1:1, 4:3, 16:9, 3:4, 9:16} and either no image or an image with
\* positive width and height, ResolutionSelector.select_resolution with model
\* 'WAN' and WanResolutionSelector.select_resolution have the same outcome:
\* the same pair, or both fail with MissingOverride.
SelectorsAgreeOnWan ==
    (Called /\ args.mode = "auto" /\ (IsRS => args.model = "WAN")
        /\ args.quality \in QualityTiers
        /\ args.aspect_ratio_override \in OverrideTokens
        /\ (args.image = NoImage \/ HasSizedImage))
    => /\ outcome.status = "ok" \/ outcome = Failed("MissingOverride")
       /\ IF IsRS
          THEN outcome = OutcomeOf(Wan_select_resolution(AsWanArgs(args)))
          ELSE \A l \in FewLabels :
                  outcome = OutcomeOf(RS_select_resolution(AsRSArgs(args, "WAN", l)))

\* both classes classify a 21x20 image (aspect exactly 1.05) as 4:3
SelectorsAgreeOnWanWitness ==
    /\ Called /\ ~IsRS /\ args.mode = "auto" /\ args.quality = "720p"
    /\ args.aspect_ratio_override = "off"
    /\ HasSizedImage /\ ImageWidth = 21 /\ ImageHeight = 20
    /\ outcome = Ok(960, 720)
    /\ OutcomeOf(RS_select_resolution(AsRSArgs(args, "WAN", "1024×1024  (1:1)"))) = outcome

\* C26: every pair that auto mode returns is accepted unchanged by the same
\* class's manual mode: both components are multiples of the class's
\* DIMENSION_ALIGNMENT and lie within [MIN_DIMENSION, MAX_DIMENSION], so
\* select_resolution in mode manual applied to an auto result (w, h) returns
\* (w, h).
AutoResultAcceptedByManual ==
    (Called /\ args.mode = "auto" /\ outcome.status = "ok")
    => /\ ManualValid(outcome.width) /\ ManualValid(outcome.height)
       /\ LET again == [args EXCEPT !.mode = "manual",
                                    !.manual_width = outcome.width,
                                    !.manual_height = outcome.height]
          IN outcome = OutcomeOf(IF IsRS THEN RS_select_resolution(again)
                                 ELSE Wan_select_resolution(again))

\* the image with width and height exchanged
SwappedImage(image) ==
    IF Len(image.shape) = 4
    THEN Tensor(<<image.shape[1], image.shape[3], image.shape[2], image.shape[4]>>)
    ELSE Tensor([image.shape EXCEPT ![1] = image.shape[2], ![2] = image.shape[1]])

\* C27: transpose symmetry. In auto mode on the ratio-driven path with
\* override 'off', for every quality tier and all positive w, h, the result
\* for an image of width w and height h is the transpose of the result for an
\* image of width h and height w.
TransposeSymmetry ==
    (Called /\ RatioDrivenAuto /\ args.aspect_ratio_override = "off"
        /\ args.quality \in QualityTiers /\ HasSizedImage)
    => /\ outcome.status = "ok"
       /\ LET swapped == [args EXCEPT !.image = SwappedImage(args.image)]
          IN OutcomeOf(IF IsRS THEN RS_select_resolution(swapped)
                       ELSE Wan_select_resolution(swapped)) = Transposed(outcome)

\* a 9x16 image gives (480, 832) and the 16x9 image gives (832, 480)
TransposeSymmetryWitness ==
    /\ Called /\ IsRS /\ RatioDrivenAuto /\ args.aspect_ratio_override = "off"
    /\ args.quality = "480p" /\ HasSizedImage
    /\ ImageWidth = 9 /\ ImageHeight = 16
    /\ outcome = Ok(480, 832)
    /\ OutcomeOf(RS_select_resolution([args EXCEPT !.image = SwappedImage(args.image)]))
         = Ok(832, 480)

\* C28: ResolutionSelector.VALIDATE_INPUTS agrees with select_resolution on
\* preset labels. For every mode, model and preset label, if VALIDATE_INPUTS
\* returns True then select_resolution with the same arguments does not fail
\* with InvalidPreset; and if mode is 'auto', model is FLUX, FLUX Kontext or
\* SDXL and the label is absent from that model's table, VALIDATE_INPUTS
\* returns an error message instead of True.
ValidationAgreesWithLookup ==
    (IsRS /\ validation # Unchecked) =>
        /\ validation = ValidationTrue
              => OutcomeOf(RS_select_resolution(args)) # Failed("InvalidPreset")
        /\ (args.mode = "auto" /\ args.model \in NamedModels
              /\ args.aspect_ratio \notin DOMAIN PresetsOf(args.model))
              => /\ validation.status = "message"
                 /\ OutcomeOf(RS_select_resolution(args)) = Failed("InvalidPreset")

\* a label of the FLUX Kontext table offered to SDXL is refused by the validation,
\* and the lookup it guards would fail
ValidationAgreesWithLookupWitness ==
    /\ IsRS /\ args.mode = "auto" /\ args.model = "SDXL"
    /\ args.aspect_ratio = "672×1568  (9:21)"
    /\ validation = ValidationMessage(<<"Selected resolution '", "672×1568  (9:21)",
                                        "' is not valid for ", "SDXL", " model">>)
    /\ Called /\ outcome = Failed("InvalidPreset")

\* _select_base_resolution of the invoked class
BaseLookup(quality, ratio_key) ==
    IF IsRS THEN RS_select_base_resolution(quality, ratio_key)
    ELSE Wan_select_base_resolution(quality, ratio_key)

\* the call gets as far as the lookup: ratio-driven path, not stopped by the
\* missing override or (WanResolutionSelector) by an unreadable image
LookupReached ==
    /\ RatioDrivenAuto
    /\ args.image = NoImage => args.aspect_ratio_override # "off"
    /\ (~IsRS /\ args.image # NoImage) => ~Wan_extract_image_dimensions(args.image).raised

\* the ratio key the caller resolves, before its remap
CallerRatioKey ==
    IF args.image = NoImage
    THEN IF IsRS THEN RS_resolve_ratio_key(args.aspect_ratio_override, 1, 1)[1]
         ELSE Wan_resolve_ratio_key(args.aspect_ratio_override, 1, 1)[1]
    ELSE IF IsRS
    THEN LET d == RS_extract_image_dimensions(args.image)
         IN RS_resolve_ratio_key(args.aspect_ratio_override, d[2], d[1])[1]
    ELSE LET d == Wan_extract_image_dimensions(args.image)
         IN Wan_resolve_ratio_key(args.aspect_ratio_override, d.width, d.height)[1]

\* C29: select_base_resolution never performs the portrait-to-landscape remap
\* itself: called with a portrait key (3:4 or 9:16) or any key outside
\* {1:1, 4:3, 16:9} it fails with UnsupportedCombination for every quality
\* tier; every caller on the ratio-driven path maps 3:4 to 4:3 and 9:16 to
\* 16:9 before the lookup, so with a quality in {480p, 720p} the lookup never
\* fails.
LookupLeavesRemapToCaller ==
    (Called /\ LookupReached) =>
        /\ \A q \in QualityTiers, key \in {"3:4", "9:16", "21:9", "off"} :
              OutcomeOf(BaseLookup(q, key)) = Failed("UnsupportedCombination")
        /\ CallerRatioKey \in {"3:4", "9:16"}
              => OutcomeOf(BaseLookup(args.quality, CallerRatioKey))
                    = Failed("UnsupportedCombination")
        /\ args.quality \in QualityTiers
              => /\ BaseLookup(args.quality, LandscapeKey(CallerRatioKey)).status = "ok"
                 /\ outcome.status = "ok"

\* the override 9:16 at 720p: the lookup of "9:16" fails, the caller looks up
\* "16:9" and transposes
LookupLeavesRemapToCallerWitness ==
    /\ Called /\ ~IsRS /\ LookupReached /\ args.image = NoImage
    /\ args.quality = "720p" /\ args.aspect_ratio_override = "9:16"
    /\ CallerRatioKey = "9:16"
    /\ OutcomeOf(BaseLookup("720p", "9:16")) = Failed("UnsupportedCombination")
    /\ OutcomeOf(BaseLookup("720p", LandscapeKey("9:16"))) = Ok(1280, 720)
    /\ outcome = Ok(720, 1280)

(***************************************************************************)
(* The single-purpose nodes: AspectRatioFromImage, NamedAspectRatioMatcher *)
(* (resolution_nodes.py and their standalone modules) and                  *)
(* ImageBatchCombiner (video_nodes.py).  One invocation each: the initial  *)
(* state holds the node and its arguments, the node's action stores what   *)
(* the call returns or raises.                                             *)
(***************************************************************************)
\* what a call returned, or the error it raised
Returned(value) == [status |-> "ok", value |-> value]
Raised(kind) == [status |-> "error", error |-> kind]

\* str(n) for n >= 0: the decimal digits, most significant first
RECURSIVE Digits(_)
Digits(n) == IF n < 10 THEN <<n>> ELSE Append(Digits(n \div 10), n % 10)

\* math.gcd
RECURSIVE GCD(_, _)
GCD(a, b) == IF b = 0 THEN Abs(a) ELSE GCD(b, a % b)

\* f"{w}:{h}"
RatioString(w, h) == <<Digits(w), ":", Digits(h)>>

\* faulty variant: the height is written first
AspectRatioFromImage_get_aspect_ratio_height_first(image) ==
    LET d == RS_extract_image_dimensions(image)
        height == d[1]
        width == d[2]
        gcd == IF GCD(width, height) = 0 THEN 1 ELSE GCD(width, height)
    IN Returned(RatioString(height \div gcd, width \div gcd))

\* AspectRatioFromImage.get_aspect_ratio (resolution_nodes.py); the helper
\* never raises, and integer arithmetic on its result cannot fail
AspectRatioFromImage_get_aspect_ratio(image) ==
    LET d == RS_extract_image_dimensions(image)
        height == d[1]
        width == d[2]
        gcd == IF GCD(width, height) = 0 THEN 1 ELSE GCD(width, height)
    IN Returned(RatioString(width \div gcd, height \div gcd))

\* AspectRatioFromImage._extract_image_dimensions (aspect_ratio_from_image.py)
Standalone_extract_image_dimensions(image) ==
    IF image.kind # "tensor"
    THEN [raised |-> TRUE, error |-> "UnsupportedImage", height |-> 0, width |-> 0]
    ELSE LET shape == image.shape
             n == Len(shape)
             hw == IF n = 4 THEN <<shape[2], shape[3]>> ELSE <<shape[1], shape[2]>>
         IN IF n \notin {2, 3, 4}
            THEN [raised |-> TRUE, error |-> "UnsupportedImage", height |-> 0, width |-> 0]
            ELSE IF hw[1] <= 0 \/ hw[2] <= 0
            THEN [raised |-> TRUE, error |-> "InvalidImageDimensions", height |-> 0, width |-> 0]
            ELSE [raised |-> FALSE, error |-> "", height |-> hw[1], width |-> hw[2]]

\* AspectRatioFromImage.get_aspect_ratio (aspect_ratio_from_image.py)
Standalone_get_aspect_ratio(image) ==
    LET d == Standalone_extract_image_dimensions(image)
        gcd == IF GCD(d.width, d.height) = 0 THEN 1 ELSE GCD(d.width, d.height)
    IN IF d.raised THEN Raised(d.error)
       ELSE Returned(RatioString(d.width \div gcd, d.height \div gcd))

\* ImageDimensions.dimensions (resolution_nodes.py): (width, height); the
\* helper never raises, so the except branch is not taken
ImageDimensions_dimensions(image) ==
    LET d == RS_extract_image_dimensions(image)
        height == d[1]
        width == d[2]
    IN Returned(<<width, height>>)

\* KNOWN_RATIOS in the order of the dict; w and h are the floats parsed from
\* the key by map(float, ratio_str.split(":"))
KNOWN_RATIOS ==
    << [ratio |-> "1:1", w |-> 1, h |-> 1, label |-> "Perfect Square"],
       [ratio |-> "2:3", w |-> 2, h |-> 3, label |-> "Classic Portrait"],
       [ratio |-> "3:4", w |-> 3, h |-> 4, label |-> "Golden Ratio"],
       [ratio |-> "3:5", w |-> 3, h |-> 5, label |-> "Elegant Vertical"],
       [ratio |-> "4:5", w |-> 4, h |-> 5, label |-> "Artistic Frame"],
       [ratio |-> "5:7", w |-> 5, h |-> 7, label |-> "Balanced Portrait"],
       [ratio |-> "5:8", w |-> 5, h |-> 8, label |-> "Tall Portrait"],
       [ratio |-> "7:9", w |-> 7, h |-> 9, label |-> "Modern Portrait"],
       [ratio |-> "9:16", w |-> 9, h |-> 16, label |-> "Slim Vertical"],
       [ratio |-> "9:19", w |-> 9, h |-> 19, label |-> "Tall Slim"],
       [ratio |-> "9:21", w |-> 9, h |-> 21, label |-> "Ultra Tall"],
       [ratio |-> "9:32", w |-> 9, h |-> 32, label |-> "Skyline"],
       [ratio |-> "3:2", w |-> 3, h |-> 2, label |-> "Golden Landscape"],
       [ratio |-> "4:3", w |-> 4, h |-> 3, label |-> "Classic Landscape"],
       [ratio |-> "5:3", w |-> 5, h |-> 3, label |-> "Wide Horizon"],
       [ratio |-> "5:4", w |-> 5, h |-> 4, label |-> "Balanced Frame"],
       [ratio |-> "7:5", w |-> 7, h |-> 5, label |-> "Elegant Landscape"],
       [ratio |-> "8:5", w |-> 8, h |-> 5, label |-> "Cinematic View"],
       [ratio |-> "16:9", w |-> 16, h |-> 9, label |-> "Panorama"],
       [ratio |-> "19:9", w |-> 19, h |-> 9, label |-> "Cinematic Ultrawide"],
       [ratio |-> "21:9", w |-> 21, h |-> 9, label |-> "Epic Ultrawide"],
       [ratio |-> "32:9", w |-> 32, h |-> 9, label |-> "Extreme Ultrawide"] >>

\* input_ratio as the parts between its colons; a part is a decimal numeral
\* of value n / d (d a power of ten: "0.49" is 49 / 100), one of the words
\* float() reads as nan or as an infinity, or a text that float() rejects
Numeral(n, d) == [kind |-> "number", n |-> n, d |-> d, text |-> ""]
NaNWord == [kind |-> "nan", n |-> 0, d |-> 1, text |-> "nan"]
InfWord(negative) ==
    [kind |-> "inf", n |-> IF negative THEN 0 - 1 ELSE 1, d |-> 1, text |-> "inf"]
Text(t) == [kind |-> "text", n |-> 0, d |-> 1, text |-> t]
EmptyString == <<Text("")>>

(***************************************************************************)
(* Python floats: IEEE 754 binary64, round to nearest, ties to even.  A    *)
(* finite non-zero float is sig * 2^exp with a significand of 53 bits,     *)
(* 2^52 <= sig < 2^53.  Significands and the wider intermediate results    *)
(* are held as five limbs of 14 bits, least significant first.             *)
(***************************************************************************)
\* an assignment: Body applied to the value, which is computed once
With(value, Body(_)) == CHOOSE result \in { Body(v) : v \in {value} } : TRUE

LimbBits == 14
LimbBase == 2^LimbBits
WideZero == <<0, 0, 0, 0, 0>>
\* a natural number below 2^31 as limbs
WideOfNat(n) == <<n % LimbBase, (n \div LimbBase) % LimbBase, n \div (LimbBase * LimbBase), 0, 0>>
\* limbs brought back into 0..LimbBase-1, carries and borrows passed upwards
Carried(x) ==
    LET y2 == x[2] + (x[1] \div LimbBase)
        y3 == x[3] + (y2 \div LimbBase)
        y4 == x[4] + (y3 \div LimbBase)
        y5 == x[5] + (y4 \div LimbBase)
    IN <<x[1] % LimbBase, y2 % LimbBase, y3 % LimbBase, y4 % LimbBase, y5>>
WidePlus(a, b) == Carried(<<a[1] + b[1], a[2] + b[2], a[3] + b[3], a[4] + b[4], a[5] + b[5]>>)
\* a - b for a >= b
WideMinus(a, b) == Carried(<<a[1] - b[1], a[2] - b[2], a[3] - b[3], a[4] - b[4], a[5] - b[5]>>)
\* a * k for 0 <= k <= LimbBase
WideTimes(a, k) == Carried(<<a[1] * k, a[2] * k, a[3] * k, a[4] * k, a[5] * k>>)
WideLess(a, b) == \E i \in 1..5 : a[i] < b[i] /\ \A j \in (i + 1)..5 : a[j] = b[j]
\* number of bits of n, 0 <= n < 2^30
BitLength(n) == CHOOSE k \in 0..30 : n < 2^k /\ (k = 0 \/ n >= 2^(k - 1))
WideBitLength(a) ==
    IF a = WideZero THEN 0
    ELSE LET top == CHOOSE i \in 1..5 : a[i] # 0 /\ \A j \in (i + 1)..5 : a[j] = 0
         IN LimbBits * (top - 1) + BitLength(a[top])
\* a moved up, or down, by whole limbs
LimbsUp(a, k) ==
    <<IF 1 > k THEN a[1 - k] ELSE 0, IF 2 > k THEN a[2 - k] ELSE 0, IF 3 > k THEN a[3 - k] ELSE 0,
      IF 4 > k THEN a[4 - k] ELSE 0, IF 5 > k THEN a[5 - k] ELSE 0>>
LimbsDown(a, k) ==
    <<IF 1 + k <= 5 THEN a[1 + k] ELSE 0, IF 2 + k <= 5 THEN a[2 + k] ELSE 0,
      IF 3 + k <= 5 THEN a[3 + k] ELSE 0, IF 4 + k <= 5 THEN a[4 + k] ELSE 0,
      IF 5 + k <= 5 THEN a[5 + k] ELSE 0>>
\* a * 2^places, for a result below 2^70
WideShiftLeft(a, places) ==
    LimbsUp(WideTimes(a, 2^(places % LimbBits)), places \div LimbBits)
\* a \div 2^places, the last bit set when a bit that was set is shifted out
WideShiftRightSticky(a, places) ==
    LET k == places \div LimbBits
        r == places % LimbBits
        b == LimbsDown(a, k)
        low(i) == (b[i] \div 2^r) + (IF i < 5 THEN (b[i + 1] % 2^r) * 2^(LimbBits - r) ELSE 0)
        lost == (\E i \in 1..5 : i <= k /\ a[i] # 0) \/ b[1] % 2^r # 0
    IN <<IF lost /\ low(1) % 2 = 0 THEN low(1) + 1 ELSE low(1), low(2), low(3), low(4), low(5)>>

\* the floats
FloatNaN == [cls |-> "nan", negative |-> FALSE, sig |-> WideZero, exp |-> 0]
FloatInf(negative) == [cls |-> "inf", negative |-> negative, sig |-> WideZero, exp |-> 0]
FloatZero == [cls |-> "zero", negative |-> FALSE, sig |-> WideZero, exp |-> 0]
Finite(negative, sig, exp) == [cls |-> "finite", negative |-> negative, sig |-> sig, exp |-> exp]
\* the ZeroDivisionError a division by zero raises
FloatZeroDivision == [cls |-> "ZeroDivisionError", negative |-> FALSE, sig |-> WideZero, exp |-> 0]

\* the value wide * 2^exp, 2^55 <= wide < 2^56 with the last bit standing
\* for everything below it, rounded to 53 bits, ties to even
RoundWide(negative, wide, exp) ==
    LET sig == <<(wide[1] \div 8) + (wide[2] % 8) * (LimbBase \div 8),
                 (wide[2] \div 8) + (wide[3] % 8) * (LimbBase \div 8),
                 (wide[3] \div 8) + (wide[4] % 8) * (LimbBase \div 8),
                 wide[4] \div 8, 0>>
        rest == wide[1] % 8
        up == rest > 4 \/ (rest = 4 /\ sig[1] % 2 = 1)
    IN With(IF up THEN WidePlus(sig, WideOfNat(1)) ELSE sig, LAMBDA rounded :
           IF WideBitLength(rounded) = 54
           THEN Finite(negative, WideShiftRightSticky(rounded, 1), exp + 4)
           ELSE Finite(negative, rounded, exp + 3))

\* the value wide * 2^exp, 0 < wide < 2^56, shifted to 56 bits and rounded
NormalizeWide(negative, wide, exp) ==
    LET places == 56 - WideBitLength(wide)
    IN RoundWide(negative, WideShiftLeft(wide, places), exp - places)

\* float(n) for an integer n of the explored range: exact
FloatOfInt(n) ==
    IF n = 0 THEN FloatZero ELSE NormalizeWide(n < 0, WideOfNat(Abs(n)), 0)

\* one step of the long division by den (56 bits) in base LimbBase: the
\* next digit of the quotient is at most two below its estimate from the
\* leading limbs
QuotientStep(state, den) ==
    With(LimbsUp(state.rem, 1), LAMBDA rem :
    With(Min(LimbBase - 1, (rem[5] * LimbBase + rem[4]) \div den[4]), LAMBDA estimate :
    With(CHOOSE q \in Max(0, estimate - 2)..estimate :
             /\ ~WideLess(rem, WideTimes(den, q))
             /\ WideLess(WideMinus(rem, WideTimes(den, q)), den), LAMBDA digit :
        [rem |-> WideMinus(rem, WideTimes(den, digit)),
         quo |-> WidePlus(LimbsUp(state.quo, 1), WideOfNat(digit))])))

\* x / y
FloatDiv(x, y) ==
    IF y.cls = "zero" THEN FloatZeroDivision
    ELSE IF x.cls = "nan" \/ y.cls = "nan" THEN FloatNaN
    ELSE IF x.cls = "inf"
    THEN (IF y.cls = "inf" THEN FloatNaN ELSE FloatInf(x.negative # y.negative))
    ELSE IF y.cls = "inf" \/ x.cls = "zero" THEN FloatZero
    ELSE LET below == WideLess(x.sig, y.sig)
             num == WideTimes(x.sig, IF below THEN 16 ELSE 8)
             exp == x.exp - y.exp - (IF below THEN 1 ELSE 0)
         IN \* den <= num < 2 * den: the quotient starts with the bit 1,
            \* four more limbs give it 57 bits
            With(WideTimes(y.sig, 8), LAMBDA den :
            With([rem |-> WideMinus(num, den), quo |-> WideOfNat(1)], LAMBDA s0 :
            With(QuotientStep(s0, den), LAMBDA s1 :
            With(QuotientStep(s1, den), LAMBDA s2 :
            With(QuotientStep(s2, den), LAMBDA s3 :
            With(QuotientStep(s3, den), LAMBDA s4 :
            With(IF s4.rem = WideZero \/ s4.quo[1] % 2 = 1 THEN s4.quo
                 ELSE WidePlus(s4.quo, WideOfNat(1)), LAMBDA quo :
                RoundWide(x.negative # y.negative, WideShiftRightSticky(quo, 1), exp - 55))))))))

\* float(part) for a part float() accepts: the float nearest to n / d
FloatOfPart(part) ==
    IF part.kind = "nan" THEN FloatNaN
    ELSE IF part.kind = "inf" THEN FloatInf(part.n < 0)
    ELSE FloatDiv(FloatOfInt(part.n), FloatOfInt(part.d))

\* whether |x| < |y| for finite non-zero x and y
MagnitudeLess(x, y) == x.exp < y.exp \/ (x.exp = y.exp /\ WideLess(x.sig, y.sig))

\* the significand with three more places
Widened(sig) == WideTimes(sig, 8)

\* abs(x - y) for a positive finite x
FloatAbsDiff(x, y) ==
    IF y.cls = "nan" THEN FloatNaN
    ELSE IF y.cls = "inf" THEN FloatInf(FALSE)
    ELSE IF y.cls = "zero" THEN x
    ELSE With(IF MagnitudeLess(x, y) THEN y ELSE x, LAMBDA big :
         With(IF MagnitudeLess(x, y) THEN x ELSE y, LAMBDA small :
         With(Widened(big.sig), LAMBDA a :
         With(WideShiftRightSticky(Widened(small.sig), big.exp - small.exp), LAMBDA b :
             IF y.negative
             THEN With(WidePlus(a, b), LAMBDA sum :
                      IF WideBitLength(sum) = 57
                      THEN RoundWide(FALSE, WideShiftRightSticky(sum, 1), big.exp - 2)
                      ELSE RoundWide(FALSE, sum, big.exp - 3))
             ELSE IF a = b THEN FloatZero
             ELSE NormalizeWide(FALSE, WideMinus(a, b), big.exp - 3)))))

\* x < y for two results of abs()
FloatLess(x, y) ==
    IF x.cls = "nan" \/ y.cls = "nan" \/ x.cls = "inf" \/ y.cls = "zero" THEN FALSE
    ELSE IF y.cls = "inf" \/ x.cls = "zero" THEN TRUE
    ELSE MagnitudeLess(x, y)

\* whether the float is > 0
FloatPositive(x) == x.cls \in {"finite", "inf"} /\ ~x.negative

\* current_ratio = w / h of every entry of KNOWN_RATIOS
KnownRatioFloats ==
    [ i \in 1..Len(KNOWN_RATIOS) |->
        FloatDiv(FloatOfInt(KNOWN_RATIOS[i].w), FloatOfInt(KNOWN_RATIOS[i].h)) ]

\* diff of every entry of KNOWN_RATIOS for a target
KnownRatioDiffs(target) ==
    [ i \in 1..Len(KNOWN_RATIOS) |-> FloatAbsDiff(KnownRatioFloats[i], target) ]

\* the loop over KNOWN_RATIOS.items(): min_diff starts at infinity and is
\* lowered at every entry whose diff is below it, that is, below infinity
\* and below the diff of every earlier entry; the entry kept is the last one
\* that lowered it, 0 when none did
ClosestKnownRatio(target) ==
    With(KnownRatioDiffs(target), LAMBDA diff :
    With({ i \in 1..Len(KNOWN_RATIOS) :
              /\ FloatLess(diff[i], FloatInf(FALSE))
              /\ \A j \in 1..(i - 1) : FloatLess(diff[i], diff[j]) }, LAMBDA lowered :
        IF lowered = {} THEN 0 ELSE CHOOSE i \in lowered : \A k \in lowered : k <= i))

\* f"{closest_ratio} ({closest_label})"
NamedRatioString(entry) == <<entry.ratio, " (", entry.label, ")">>
PerfectSquare == NamedRatioString(KNOWN_RATIOS[1])
\* the None the standalone node returns when no entry was kept
NoneValue == <<>>

\* NamedAspectRatioMatcher.match_ratio (resolution_nodes.py): every
\* malformed input gives the default, which is also what closest_ratio and
\* closest_label hold before the loop
NamedAspectRatioMatcher_match_ratio(input_ratio) ==
    IF input_ratio = EmptyString \/ Len(input_ratio) = 1 THEN Returned(PerfectSquare)
    ELSE IF \E i \in 1..Min(Len(input_ratio), 3) : input_ratio[i].kind = "text"
    THEN Returned(PerfectSquare)
    ELSE IF Len(input_ratio) # 2 THEN Returned(PerfectSquare)
    ELSE With(FloatOfPart(input_ratio[1]), LAMBDA width :
         With(FloatOfPart(input_ratio[2]), LAMBDA height :
             IF width.cls # "nan" /\ ~FloatPositive(width) THEN Returned(PerfectSquare)
             ELSE IF height.cls # "nan" /\ ~FloatPositive(height) THEN Returned(PerfectSquare)
             ELSE With(FloatDiv(width, height), LAMBDA target_ratio :
                  With(ClosestKnownRatio(target_ratio), LAMBDA closest :
                      IF closest = 0 THEN Returned(PerfectSquare)
                      ELSE Returned(NamedRatioString(KNOWN_RATIOS[closest]))))))

\* NamedAspectRatioMatcher.match_ratio (named_aspect_ratio_matcher.py):
\* malformed input raises, and only a zero height is refused.  Unpacking
\* the map converts the parts one by one and stops at the third
Standalone_match_ratio(input_ratio) ==
    IF Len(input_ratio) = 1 THEN Raised("InvalidFormat")
    ELSE IF \E i \in 1..Min(Len(input_ratio), 3) : input_ratio[i].kind = "text"
    THEN Raised("NotANumber")
    ELSE IF Len(input_ratio) # 2 THEN Raised("TooManyParts")
    ELSE With(FloatOfPart(input_ratio[1]), LAMBDA width :
         With(FloatOfPart(input_ratio[2]), LAMBDA height :
             IF height.cls = "zero" THEN Raised("ZeroHeight")
             ELSE With(FloatDiv(width, height), LAMBDA target :
                  With(ClosestKnownRatio(target), LAMBDA closest :
                      IF closest = 0 THEN Returned(NoneValue)
                      ELSE Returned(NamedRatioString(KNOWN_RATIOS[closest]))))))

\* an image batch: its frames in order, and the size (height, width,
\* channels) every frame of the tensor has
Batch(frames, size) == [frames |-> frames, size |-> size]

\* torch.cat([a, b], dim=0): the frames of a followed by those of b; raises
\* when the sizes of the two tensors differ outside dimension 0
TorchCat(a, b) ==
    IF a.size # b.size THEN Raised("RuntimeError")
    ELSE Returned(Batch(a.frames \o b.frames, a.size))

\* faulty variant: the last frame of first_images is kept
ImageBatchCombiner_combine_batches_untrimmed(first_images, last_images, ignore_first_images) ==
    IF ignore_first_images THEN Returned(last_images)
    ELSE IF Len(first_images.frames) > 1
    THEN LET cat == TorchCat(first_images, last_images)
         IN IF cat.status = "error" THEN Returned(last_images) ELSE cat
    ELSE Returned(last_images)

\* ImageBatchCombiner.combine_batches for two tensors; an exception of the
\* concatenation is caught and last_images returned
ImageBatchCombiner_combine_batches(first_images, last_images, ignore_first_images) ==
    IF ignore_first_images THEN Returned(last_images)
    ELSE IF Len(first_images.frames) > 1
    THEN LET first_images_trimmed ==
                 Batch(SubSeq(first_images.frames, 1, Len(first_images.frames) - 1),
                       first_images.size)
             cat == TorchCat(first_images_trimmed, last_images)
         IN IF cat.status = "error" THEN Returned(last_images) ELSE cat
    ELSE Returned(last_images)

(***************************************************************************)
(* The explored arguments of the single-purpose nodes.                     *)
(***************************************************************************)
\* largest width and height of the integer ratios 'w:h'
MaxRatioSide == 36
\* most frames of one batch
MaxFrames == 3

\* the targets midway between two neighbouring known ratios that lie
\* outside the square of integer ratios, and other inputs of interest
SpecialRatios ==
    { <<Numeral(159, 1), Numeral(448, 1)>>, <<Numeral(60, 1), Numeral(133, 1)>>,
      <<Numeral(315, 1), Numeral(608, 1)>>, <<Numeral(93, 1), Numeral(160, 1)>>,
      <<Numeral(49, 1), Numeral(80, 1)>>, <<Numeral(31, 1), Numeral(48, 1)>>,
      <<Numeral(29, 1), Numeral(42, 1)>>, <<Numeral(41, 1), Numeral(56, 1)>>,
      <<Numeral(55, 1), Numeral(72, 1)>>, <<Numeral(71, 1), Numeral(90, 1)>>,
      <<Numeral(53, 1), Numeral(18, 1)>>, <<Numeral(62, 1), Numeral(36, 1)>>,
      <<Numeral(1920, 1), Numeral(1080, 1)>>, <<Numeral(1080, 1), Numeral(1920, 1)>>,
      <<Numeral(239, 100), Numeral(1, 1)>>, <<Numeral(185, 100), Numeral(1, 1)>>,
      <<Numeral(1125, 1000), Numeral(1, 1)>>, <<Numeral(155, 10), Numeral(9, 1)>>,
      <<Numeral(15, 10), Numeral(1, 1)>>,
      \* the same midpoints written with decimals
      <<Numeral(49, 100), Numeral(8, 10)>>, <<Numeral(9, 100), Numeral(1, 10)>>,
      <<Numeral(41, 10), Numeral(3, 1)>>, <<Numeral(159, 100), Numeral(448, 100)>>,
      <<Numeral(315, 10), Numeral(608, 10)>>, <<Numeral(315, 1000), Numeral(608, 1000)>>,
      <<Numeral(31, 10), Numeral(18, 10)>>, <<Numeral(1, 10), Numeral(3, 10)>> }
MalformedRatios ==
    { EmptyString, <<Text("16x9")>>, <<Numeral(16, 1)>>,
      <<Text("a"), Text("b")>>, <<Numeral(16, 1), Text("")>>,
      <<Numeral(1, 1), Numeral(2, 1), Numeral(3, 1)>>,
      <<Numeral(0, 1), Numeral(5, 1)>>, <<Numeral(5, 1), Numeral(0, 1)>>,
      <<Numeral(0 - 1, 1), Numeral(0 - 2, 1)>>, <<Numeral(1, 1), Numeral(0 - 2, 1)>>,
      <<Numeral(0 - 16, 1), Numeral(9, 1)>>, <<Numeral(0 - 16, 1), Numeral(0 - 9, 1)>>,
      <<Numeral(1, 1), Numeral(2, 1), Numeral(3, 1), Text("x")>>,
      <<Numeral(1, 1), Numeral(2, 1), Text("x")>>, <<Numeral(1, 1), Text("x"), Numeral(3, 1)>>,
      <<NaNWord, Numeral(1, 1)>>, <<Numeral(1, 1), NaNWord>>,
      <<InfWord(FALSE), Numeral(1, 1)>>, <<Numeral(1, 1), InfWord(FALSE)>>,
      <<InfWord(FALSE), InfWord(FALSE)>>, <<InfWord(TRUE), Numeral(1, 1)>>,
      <<Numeral(1, 1), InfWord(TRUE)>>, <<Numeral(0, 1), InfWord(TRUE)>> }
InputRatios ==
    { <<Numeral(w, 1), Numeral(h, 1)>> : w \in 1..MaxRatioSide, h \in 1..MaxRatioSide }
    \cup SpecialRatios \cup MalformedRatios

\* batches of up to MaxFrames frames drawn from two distinguishable frames
RECURSIVE FrameSeqs(_)
FrameSeqs(n) ==
    IF n = 0 THEN {<<>>}
    ELSE FrameSeqs(n - 1)
         \cup { Append(s, f) : s \in { t \in FrameSeqs(n - 1) : Len(t) = n - 1 },
                               f \in {"a", "b"} }
FrameSizes == { <<64, 64, 3>>, <<32, 64, 3>> }
CombineArgs ==
    [ first_images : { Batch(s, z) : s \in FrameSeqs(MaxFrames), z \in FrameSizes },
      last_images : { Batch(s, <<64, 64, 3>>) : s \in FrameSeqs(MaxFrames) },
      ignore_first_images : BOOLEAN ]

NodeArgSet(n) ==
    CASE n = "AspectRatioFromImage" -> [ image : Images ]
      [] n = "aspect_ratio_from_image.AspectRatioFromImage" -> [ image : Images ]
      [] n = "ImageDimensions" -> [ image : Images ]
      [] n = "NamedAspectRatioMatcher" -> [ input_ratio : InputRatios ]
      [] n = "named_aspect_ratio_matcher.NamedAspectRatioMatcher" -> [ input_ratio : InputRatios ]
      [] n = "ImageBatchCombiner" -> CombineArgs

(***************************************************************************)
(* One invocation of a single-purpose node.                                *)
(***************************************************************************)
InitNodes ==
    /\ node \in { "AspectRatioFromImage", "aspect_ratio_from_image.AspectRatioFromImage",
                  "ImageDimensions",
                  "NamedAspectRatioMatcher",
                  "named_aspect_ratio_matcher.NamedAspectRatioMatcher",
                  "ImageBatchCombiner" }
    /\ args \in NodeArgSet(node)
    /\ outcome = Pending
    /\ extract_calls = 0
    /\ class_attrs = ClassAttrs
    /\ history = <<>>
    /\ validation = Unchecked
    /\ output_folder = {}

\* the host runs AspectRatioFromImage.get_aspect_ratio, whose first
\* statement is its one call of the image-dimension helper
GetAspectRatio ==
    /\ node = "AspectRatioFromImage"
    /\ outcome = Pending
    /\ outcome' = AspectRatioFromImage_get_aspect_ratio(args.image)
    /\ extract_calls' = extract_calls + 1
    /\ UNCHANGED <<node, args, class_attrs, history, validation, output_folder>>

\* the same for the class of aspect_ratio_from_image.py, whose helper is
\* called once also when it raises
StandaloneGetAspectRatio ==
    /\ node = "aspect_ratio_from_image.AspectRatioFromImage"
    /\ outcome = Pending
    /\ outcome' = Standalone_get_aspect_ratio(args.image)
    /\ extract_calls' = extract_calls + 1
    /\ UNCHANGED <<node, args, class_attrs, history, validation, output_folder>>

\* the host runs ImageDimensions.dimensions, which calls the helper once
Dimensions ==
    /\ node = "ImageDimensions"
    /\ outcome = Pending
    /\ outcome' = ImageDimensions_dimensions(args.image)
    /\ extract_calls' = extract_calls + 1
    /\ UNCHANGED <<node, args, class_attrs, history, validation, output_folder>>

MatchRatio ==
    /\ node = "NamedAspectRatioMatcher"
    /\ outcome = Pending
    /\ outcome' = NamedAspectRatioMatcher_match_ratio(args.input_ratio)
    /\ UNCHANGED <<node, args, extract_calls, class_attrs, history, validation,
                   output_folder>>

StandaloneMatchRatio ==
    /\ node = "named_aspect_ratio_matcher.NamedAspectRatioMatcher"
    /\ outcome = Pending
    /\ outcome' = Standalone_match_ratio(args.input_ratio)
    /\ UNCHANGED <<node, args, extract_calls, class_attrs, history, validation,
                   output_folder>>

CombineBatches ==
    /\ node = "ImageBatchCombiner"
    /\ outcome = Pending
    /\ outcome' = ImageBatchCombiner_combine_batches(
                      args.first_images, args.last_images, args.ignore_first_images)
    /\ UNCHANGED <<node, args, extract_calls, class_attrs, history, validation,
                   output_folder>>

NextNodes ==
    \/ GetAspectRatio \/ StandaloneGetAspectRatio
    \/ Dimensions
    \/ MatchRatio \/ StandaloneMatchRatio
    \/ CombineBatches

SpecNodes == InitNodes /\ [][NextNodes]_vars

(***************************************************************************)
(* Properties of the single-purpose nodes.                                 *)
(***************************************************************************)
\* the number a string of decimal digits denotes
RECURSIVE DecimalValue(_)
DecimalValue(ds) ==
    IF Len(ds) = 0 THEN 0
    ELSE 10 * DecimalValue(SubSeq(ds, 1, Len(ds) - 1)) + ds[Len(ds)]

IsAspectNode ==
    node \in {"AspectRatioFromImage", "aspect_ratio_from_image.AspectRatioFromImage"}

\* C24: AspectRatioFromImage.get_aspect_ratio, for an image of width W > 0
\* and height H > 0, returns the string 'w:h' with w = W / gcd(W, H) and
\* h = H / gcd(W, H), in width-first order: gcd(w, h) = 1 and w * H = h * W.
\* The products are stated through the common factor g = W / w (w * g = W
\* and h * g = H), and gcd(w, h) = 1 as the absence of a common divisor.
AspectRatioIsReduced ==
    (Called /\ IsAspectNode /\ HasSizedImage) =>
        /\ outcome.status = "ok"
        /\ Len(outcome.value) = 3 /\ outcome.value[2] = ":"
        /\ LET w == DecimalValue(outcome.value[1])
               h == DecimalValue(outcome.value[3])
               g == ImageWidth \div w
           IN /\ w > 0 /\ h > 0
              /\ outcome.value[1] = Digits(w) /\ outcome.value[3] = Digits(h)
              /\ w * g = ImageWidth /\ h * g = ImageHeight
              /\ \A k \in 2..Min(w, h) : ~(w % k = 0 /\ h % k = 0)

\* a 1920x1080 image gives "16:9"
AspectRatioIsReducedWitness ==
    /\ Called /\ node = "AspectRatioFromImage" /\ HasSizedImage
    /\ ImageWidth = 1920 /\ ImageHeight = 1080
    /\ outcome = Returned(<<<<1, 6>>, ":", <<9>>>>)

IsMatcherNode ==
    node \in {"NamedAspectRatioMatcher", "named_aspect_ratio_matcher.NamedAspectRatioMatcher"}

\* the input is 'w:h' with two numerals w > 0 and h > 0
IsPositiveRatio ==
    /\ Len(args.input_ratio) = 2
    /\ \A i \in 1..2 : args.input_ratio[i].kind = "number" /\ args.input_ratio[i].n > 0

\* w / h of the input as the fraction TargetW / TargetH
TargetW == args.input_ratio[1].n * args.input_ratio[2].d
TargetH == args.input_ratio[2].n * args.input_ratio[1].d

\* the exact |w'/h' - W/H| of an entry, as its numerator over the common
\* positive denominator of the two entries compared
ScaledDiff(entry, other, W, H) == Abs(entry.w * H - W * entry.h) * other.h

\* |w'/h' - w/h| of entry i is smaller than, or equal to, that of entry j
CloserThan(i, j) ==
    ScaledDiff(KNOWN_RATIOS[i], KNOWN_RATIOS[j], TargetW, TargetH)
        < ScaledDiff(KNOWN_RATIOS[j], KNOWN_RATIOS[i], TargetW, TargetH)
AsCloseAs(i, j) ==
    ScaledDiff(KNOWN_RATIOS[i], KNOWN_RATIOS[j], TargetW, TargetH)
        = ScaledDiff(KNOWN_RATIOS[j], KNOWN_RATIOS[i], TargetW, TargetH)

\* C22: NamedAspectRatioMatcher.match_ratio, for any input 'w:h' with w > 0
\* and h > 0, returns the KNOWN_RATIOS entry whose value w'/h' has the
\* smallest absolute difference to w/h (the first entry in table order on a
\* tie), formatted as 'ratio (label)'; in particular an input equal to a
\* KNOWN_RATIOS key returns that key with its label.
MatchesClosestKnownRatio ==
    (Called /\ IsMatcherNode /\ IsPositiveRatio) =>
        /\ outcome.status = "ok"
        /\ \E i \in 1..Len(KNOWN_RATIOS) :
              /\ outcome.value = NamedRatioString(KNOWN_RATIOS[i])
              /\ \A j \in 1..Len(KNOWN_RATIOS) :
                    CloserThan(i, j) \/ (AsCloseAs(i, j) /\ i <= j)

\* the frames of both batches have the same size
SameFrameSize == args.first_images.size = args.last_images.size

\* first_images without its last frame, followed by last_images
TrimmedThenLast ==
    IF Len(args.first_images.frames) = 0 THEN args.last_images.frames
    ELSE SubSeq(args.first_images.frames, 1, Len(args.first_images.frames) - 1)
            \o args.last_images.frames

\* C23 as stated: ImageBatchCombiner.combine_batches with
\* ignore_first_images = False returns first_images without its last frame
\* followed by every frame of last_images, in their original order (so the
\* result has max(len(first) - 1, 0) + len(last) frames and equals
\* last_images when first_images has 0 or 1 frame); with
\* ignore_first_images = True it returns exactly last_images.
CombineTrimsAndAppends ==
    (Called /\ node = "ImageBatchCombiner") =>
        /\ outcome.status = "ok"
        /\ IF args.ignore_first_images THEN outcome.value = args.last_images
           ELSE /\ outcome.value.frames = TrimmedThenLast
                /\ Len(outcome.value.frames)
                     = Max(Len(args.first_images.frames) - 1, 0)
                       + Len(args.last_images.frames)
                /\ Len(args.first_images.frames) <= 1 => outcome.value = args.last_images

\* C23, amended: the same, provided the frames of first_images and
\* last_images have the same height, width and channels or first_images has
\* at most one frame. With two or more frames in first_images and a
\* different frame size, and ignore_first_images = False, the concatenation
\* fails and the call returns last_images alone.
CombineTrimsAndAppendsSameSize ==
    (Called /\ node = "ImageBatchCombiner") =>
        /\ outcome.status = "ok"
        /\ IF args.ignore_first_images THEN outcome.value = args.last_images
           ELSE IF SameFrameSize \/ Len(args.first_images.frames) <= 1
           THEN /\ outcome.value.frames = TrimmedThenLast
                /\ outcome.value.size = args.last_images.size
                /\ Len(outcome.value.frames)
                     = Max(Len(args.first_images.frames) - 1, 0)
                       + Len(args.last_images.frames)
                /\ Len(args.first_images.frames) <= 1 => outcome.value = args.last_images
           ELSE outcome.value = args.last_images

\* three frames and two frames of one size give the first two followed by
\* the two
CombineTrimsAndAppendsSameSizeWitness ==
    /\ Called /\ node = "ImageBatchCombiner" /\ ~args.ignore_first_images
    /\ SameFrameSize
    /\ args.first_images.frames = <<"a", "b", "a">>
    /\ args.last_images.frames = <<"b", "b">>
    /\ outcome.value.frames = <<"a", "b", "b", "b">>

(***************************************************************************)
(* SaveImageWithSeed (utility_nodes.py).  A file name is a Python string:  *)
(* the sequence of the code points of its characters (ord), the extension  *)
(* ".png" included: "x_1" is <<120, 95, 49>>.                              *)
(***************************************************************************)
\* the characters "0" of the decimal digits of every script (48 is the
\* ASCII "0", 1632 the Arabic-Indic, 65296 the fullwidth zero); the nine
\* characters that follow each are its "1" to "9"
DecimalZeros ==
    { 48, 1632, 1776, 1984, 2406, 2534, 2662, 2790, 2918, 3046, 3174, 3302,
      3430, 3558, 3664, 3792, 3872, 4160, 4240, 6112, 6160, 6470, 6608,
      6784, 6800, 6992, 7088, 7232, 7248, 42528, 43216, 43264, 43472, 43504,
      43600, 44016, 65296, 66720, 68912, 69734, 69872, 69942, 70096, 70384,
      70736, 70864, 71248, 71360, 71472, 71904, 72016, 72784, 73040, 73120,
      92768, 92864, 93008, 120782, 120792, 120802, 120812, 120822, 123200,
      123632, 125264, 130032 }
\* the ranges of the digits that are no decimal digits (superscripts,
\* circled and parenthesised digits, ...)
OtherDigitRanges ==
    { <<178, 179>>, <<185, 185>>, <<4969, 4977>>, <<6618, 6618>>,
      <<8304, 8304>>, <<8308, 8313>>, <<8320, 8329>>, <<9312, 9320>>,
      <<9332, 9340>>, <<9352, 9360>>, <<9450, 9450>>, <<9461, 9469>>,
      <<9471, 9471>>, <<10102, 10110>>, <<10112, 10120>>, <<10122, 10130>>,
      <<68160, 68163>>, <<69216, 69224>>, <<69714, 69722>>,
      <<127232, 127242>> }
\* the characters int() strips from both ends of its argument
IntWhitespace ==
    { 9, 10, 11, 12, 13, 32, 133, 160, 5760, 8192, 8193, 8194, 8195, 8196,
      8197, 8198, 8199, 8200, 8201, 8202, 8232, 8233, 8239, 8287, 12288 }

\* c.isdecimal(): the characters int() reads as a digit, and their values
IsDecimalChar(c) == \E z \in DecimalZeros : z <= c /\ c <= z + 9
DecimalOfChar(c) == c - (CHOOSE z \in DecimalZeros : z <= c /\ c <= z + 9)

\* c.isdigit() for a character of a file name
IsDigitChar(c) ==
    IsDecimalChar(c) \/ \E r \in OtherDigitRanges : r[1] <= c /\ c <= r[2]

\* str(n): ASCII digits after "-" (45) for a negative number
Str(n) ==
    LET ds == Digits(Abs(n))
        text == [i \in 1..Len(ds) |-> 48 + ds[i]]
    IN IF n < 0 THEN <<45>> \o text ELSE text

\* width of the counter in a file name
CounterDigits == 5

\* f"{counter:05}": at least CounterDigits characters, zeros after the sign
ZeroPadded(n, width) ==
    LET sign == IF n < 0 THEN <<45>> ELSE <<>>
        ds == Str(Abs(n))
        zeros == [i \in 1..Max(0, width - Len(sign) - Len(ds)) |-> 48]
    IN sign \o zeros \o ds

\* s.startswith(prefix), s.endswith(suffix)
StartsWith(s, prefix) ==
    Len(s) >= Len(prefix) /\ SubSeq(s, 1, Len(prefix)) = prefix
EndsWith(s, suffix) ==
    Len(s) >= Len(suffix) /\ SubSeq(s, Len(s) - Len(suffix) + 1, Len(s)) = suffix

\* where str.replace and str.split find old in s: scanning from the left,
\* an occurrence that overlaps one already found is skipped
Occurrences(s, old) ==
    LET all == { i \in 1..(Len(s) - Len(old) + 1) :
                    SubSeq(s, i, i + Len(old) - 1) = old }
    IN CHOOSE found \in SUBSET all :
          \A i \in all :
             (i \in found) <=> (\A j \in found : ~(j < i /\ i < j + Len(old)))

\* s.replace(old, new) for a non-empty old
StrReplace(s, old, new) ==
    LET found == Occurrences(s, old)
    IN IF found = {} THEN s
       ELSE LET kept == { i \in 1..Len(s) :
                           \A j \in found : ~(j <= i /\ i < j + Len(old)) }
                start == [i \in 1..(Len(s) + 1) |->
                             Cardinality({ k \in kept : k < i })
                             + Len(new) * Cardinality({ j \in found : j < i })]
                source(p) == CHOOSE i \in found \cup kept :
                                /\ start[i] < p
                                /\ p <= start[i] + (IF i \in found THEN Len(new) ELSE 1)
            IN [p \in 1..start[Len(s) + 1] |->
                   LET i == source(p)
                   IN IF i \in found THEN new[p - start[i]] ELSE s[i]]

\* s.split(sep) for a non-empty sep
StrSplit(s, sep) ==
    LET found == Occurrences(s, sep)
        nth == [k \in 1..Cardinality(found) |->
                   CHOOSE j \in found : Cardinality({ x \in found : x < j }) = k - 1]
        first(k) == IF k = 1 THEN 1 ELSE nth[k - 1] + Len(sep)
        last(k) == IF k = Cardinality(found) + 1 THEN Len(s) ELSE nth[k] - 1
    IN [k \in 1..(Cardinality(found) + 1) |-> SubSeq(s, first(k), last(k))]

\* s.isdigit()
IsDigit(s) == Len(s) > 0 /\ \A i \in 1..Len(s) : IsDigitChar(s[i])

\* whether int(s) succeeds for a string of digits: a digit that is no
\* decimal digit makes it raise ValueError
IsDecimal(s) == Len(s) > 0 /\ \A i \in 1..Len(s) : IsDecimalChar(s[i])

\* int(s) for a string of decimal digits
IntOfDigits(s) == DecimalValue([i \in 1..Len(s) |-> DecimalOfChar(s[i])])

\* ".png", "_" and "%batch_num%"
PngSuffix == <<46, 112, 110, 103>>
Underscore == <<95>>
BatchNumToken == <<37, 98, 97, 116, 99, 104, 95, 110, 117, 109, 37>>

\* filename.replace("%batch_num%", str(batch_number)), then
\* f"{filename_with_batch_num}_{counter:05}_{seed}_.png" or
\* f"{filename_with_batch_num}_{counter:05}_.png"; seed is <<>> for None
SavedFileName(filename, batch_number, counter, seed) ==
    LET filename_with_batch_num == StrReplace(filename, BatchNumToken, Str(batch_number))
    IN filename_with_batch_num \o Underscore
       \o ZeroPadded(counter, CounterDigits) \o Underscore
       \o (IF seed = <<>> THEN <<>> ELSE Str(seed[1]) \o Underscore)
       \o PngSuffix

\* f.startswith(filename + "_")
StartsWithFilename(f, filename) == StartsWith(f, filename \o Underscore)

SetMax(S) == CHOOSE x \in S : \A y \in S : y <= x

\* s.strip() as int() applies it
IntStripped(s) ==
    LET inner == { i \in 1..Len(s) : s[i] \notin IntWhitespace }
    IN IF inner = {} THEN <<>>
       ELSE SubSeq(s, CHOOSE i \in inner : \A j \in inner : i <= j, SetMax(inner))

\* int(s) as the host applies it to what follows filename + "_" up to the
\* next underscore: whitespace around an optional sign ("-" is 45, "+" is
\* 43) and decimal digits, 0 for anything else
HostDigits(s) ==
    LET stripped == IntStripped(s)
        signed == Len(stripped) > 0 /\ stripped[1] \in {45, 43}
        body == IF signed THEN SubSeq(stripped, 2, Len(stripped)) ELSE stripped
    IN IF ~IsDecimal(body) THEN 0
       ELSE IF signed /\ stripped[1] = 45 THEN 0 - IntOfDigits(body)
       ELSE IntOfDigits(body)

\* the host's folder_paths.get_save_image_path, third result: one more than
\* the largest number that follows filename + "_" in a file of the folder
\* (0 for a part that is not a number), 1 when no file starts that way
HostBaseCounter(folder, filename) ==
    LET matching == { f \in folder : StartsWithFilename(f, filename) }
        number(f) == HostDigits(StrSplit(SubSeq(f, Len(filename) + 2, Len(f)), Underscore)[1])
    IN IF matching = {} THEN 1 ELSE SetMax({ number(f) : f \in matching }) + 1

\* parts = f.replace('.png', '').split('_')
FileParts(f) == StrSplit(StrReplace(f, PngSuffix, <<>>), Underscore)

\* the counters collected from os.listdir: parts[1] of every file that
\* starts with filename + "_" and ends with ".png", when it is a string of
\* exactly five digits; a file whose int(counter_part) raises ValueError
\* is skipped
ExistingCounters(folder, filename) ==
    LET parts == [f \in { g \in folder : /\ StartsWithFilename(g, filename)
                                         /\ EndsWith(g, PngSuffix) } |->
                     FileParts(f)]
    IN { IntOfDigits(parts[f][2]) :
           f \in { g \in DOMAIN parts : /\ Len(parts[g]) >= 2
                                        /\ Len(parts[g][2]) = CounterDigits
                                        /\ IsDigit(parts[g][2])
                                        /\ IsDecimal(parts[g][2]) } }

\* the counter of the first image of the call
FirstCounter(folder, filename) ==
    LET counters == ExistingCounters(folder, filename)
    IN IF counters # {} THEN SetMax(counters) + 1
       ELSE HostBaseCounter(folder, filename)

\* SaveImageWithSeed.save: the result and the folder after the call; an
\* empty batch fails at images[0], before anything is written
SaveImageWithSeed_save(folder, images, filename_prefix, seed) ==
    IF Len(images) = 0 THEN [result |-> Raised("IndexError"), folder |-> folder]
    ELSE LET filename == filename_prefix
             counter == FirstCounter(folder, filename)
             files == [k \in 1..Len(images) |->
                          SavedFileName(filename, k - 1, counter + (k - 1), seed)]
         IN [result |-> Returned(files),
             folder |-> folder \cup { files[k] : k \in 1..Len(images) }]

\* calls made one after the other into the folder
MaxSaves == 3
\* the highest counter of a folder that has nearly used up five digits
NearlyFullCounter == 99998

\* "ComfyUI", "my_image" and "x%batch_num%"
FilenamePrefixes ==
    { <<67, 111, 109, 102, 121, 85, 73>>,
      <<109, 121, 95, 105, 109, 97, 103, 101>>,
      <<120>> \o BatchNumToken }
SaveArgSet ==
    [ images : { <<>>, <<"a">>, <<"a", "b">> },
      filename_prefix : FilenamePrefixes,
      seed : { <<>>, <<7>> } ]
\* counters another program wrote: 12345 in fullwidth digits, and five
\* superscript twos
ForeignCounters ==
    { <<65297, 65298, 65299, 65300, 65301>>, <<178, 178, 178, 178, 178>> }
\* the folder before the first explored call: empty, holding the latest
\* file of earlier calls, or holding a file of another program
InitialFolders(filename) ==
    { {} } \cup { { SavedFileName(filename, 0, c, s) } :
                    c \in {1, NearlyFullCounter}, s \in { <<>>, <<7>> } }
           \cup { { filename \o Underscore \o c \o Underscore \o PngSuffix } :
                    c \in ForeignCounters }

InitSave ==
    /\ node = "SaveImageWithSeed"
    /\ args \in SaveArgSet
    /\ outcome = Pending
    /\ extract_calls = 0
    /\ class_attrs = ClassAttrs
    /\ history = <<>>
    /\ validation = Unchecked
    /\ output_folder \in InitialFolders(args.filename_prefix)

\* the host runs SaveImageWithSeed.save
SaveImages ==
    /\ node = "SaveImageWithSeed"
    /\ outcome = Pending
    /\ LET r == SaveImageWithSeed_save(output_folder, args.images,
                                       args.filename_prefix, args.seed)
       IN /\ outcome' = r.result
          /\ output_folder' = r.folder
          /\ history' = Append(history, [node |-> node, args |-> args, outcome |-> r.result])
    /\ UNCHANGED <<node, args, extract_calls, class_attrs, validation>>

\* the host queues the next save with the same prefix
HostNextSave ==
    /\ node = "SaveImageWithSeed"
    /\ outcome # Pending
    /\ Len(history) < MaxSaves
    /\ args' \in { a \in SaveArgSet : a.filename_prefix = args.filename_prefix }
    /\ outcome' = Pending
    /\ UNCHANGED <<node, extract_calls, class_attrs, history, validation, output_folder>>

NextSave == SaveImages \/ HostNextSave

SpecSave == InitSave /\ [][NextSave]_vars

\* what stands in a file name between name + "_" and the next underscore
CounterField(f, name) ==
    StrSplit(SubSeq(f, Len(name) + 2, Len(f)), Underscore)[1]

\* the counter written into the k-th file name of a call
CounterOf(f, k) ==
    IntOfDigits(CounterField(f, StrReplace(args.filename_prefix, BatchNumToken, Str(k - 1))))

\* the highest counter among the existing '<filename>_NNNNN_*.png' files, 0
\* when there is none
HighestExisting ==
    LET cs == { IntOfDigits(CounterField(f, args.filename_prefix)) :
                  f \in { g \in output_folder :
                            /\ StartsWithFilename(g, args.filename_prefix)
                            /\ EndsWith(g, PngSuffix)
                            /\ Len(CounterField(g, args.filename_prefix)) = 5
                            /\ IsDecimal(CounterField(g, args.filename_prefix)) } }
    IN IF cs = {} THEN 0 ELSE SetMax(cs)

\* C30: across any sequence of SaveImageWithSeed.save calls into one output
\* folder with one filename prefix (with or without a seed, with batches of
\* any size), no call writes a filename that already exists in the folder:
\* each call starts at one more than the highest counter among the existing
\* '<filename>_NNNNN_*.png' files, and the images of one batch get
\* consecutive, distinct counters.
SavesNeverOverwrite ==
    [][ (node = "SaveImageWithSeed" /\ outcome = Pending /\ outcome'.status = "ok") =>
            /\ \A k \in 1..Len(outcome'.value) : outcome'.value[k] \notin output_folder
            /\ \A k \in 1..Len(outcome'.value) :
                  CounterOf(outcome'.value[k], k) = HighestExisting + k
            /\ Len(outcome'.value) = Len(args.images) ]_vars

====
